---- MODULE Spec2Model ----
(***************************************************************************)
(* Verification model of the STM32Audio framework.                         *)
(*                                                                         *)
(* Part 1: the ThreadPool core module (core_thread.h / threadpool.c).      *)
(*                                                                         *)
(* Threads of the model:                                                   *)
(*   app      the thread that calls core_thread_init_with_config and       *)
(*            core_thread_deinit; it is the thread recorded in             *)
(*            pool->main_thread when low_power_mode is set;                *)
(*   sub      a thread that calls core_thread_add_task;                    *)
(*   idle     the idle hook, which calls core_thread_wait_and_suspend;     *)
(*   thr[t]   the worker threads created by osThreadNew.                   *)
(*                                                                         *)
(* Heap model: a pool record lives at an address of Addr. vPortFree leaves *)
(* the bytes of the record in place; pvPortMalloc may hand the same        *)
(* address out again or another one. A worker keeps the pointer it was     *)
(* started with, so a worker that outlives its pool reads and writes       *)
(* whatever record is at that address now.                                 *)
(*                                                                         *)
(* Part 2: the audio recorder (audio_recorder.c / audio_recorder.h).       *)
(*                                                                         *)
(*   audio_recorder_start and audio_recorder_stop are calls of a control   *)
(*   thread; the two DFSDM filters fill left_buffer and right_buffer with  *)
(*   circular DMA transfers and raise an interrupt when a half is full;    *)
(*   the interrupt callbacks post to audio_queue, audio_recorder_task      *)
(*   turns each event into a token of audio_semaphore, and                 *)
(*   audio_processor_task converts one half of the buffers per token.      *)
(*   The HAL is not part of the repository: a configuration or start call  *)
(*   may fail, a stop call stops the transfer.                             *)
(*                                                                         *)
(* RTOS model (CMSIS-RTOS2 API contract): osMessageQueuePut inserts by     *)
(* message priority, higher first, FIFO among equal priorities; a zero     *)
(* timeout never blocks. A call on a deleted queue returns an error.       *)
(***************************************************************************)
EXTENDS Integers, Sequences, FiniteSets, TLC

----------------------------------------------------------------------------
(* Bounds of the model *)

\* largest config.thread_count passed to a construction
MaxThreadCount == 2

\* largest config.queue_size passed to a construction
MaxQueueSize == 2

\* threads the kernel can create before osThreadNew fails for lack of memory
MaxThreads == 3

\* constructions attempted in one behaviour
MaxCtor == 2

\* tasks accepted in one behaviour of Spec, SpecSched, SpecBusy, SpecIdle
MaxLifeTasks == 2

MaxSchedTasks == 3

MaxBusyTasks == 4

MaxIdleTasks == 2

MaxDrainTasks == 3

MaxStarveTasks == 2

\* samples in each capture buffer (AUDIO_BUFFER_SIZE is 2048 in the source;
\* the halves are [0, size / 2) and [size / 2, size) for every size)
AUDIO_BUFFER_SIZE == 4

\* capacity of the recorder's event queue (10 in the source)
AUDIO_QUEUE_SIZE == 2

\* transfer interrupts in one behaviour
MaxIrq == 4

\* sink objects of the application
MaxSinkObjects == 4

\* sink objects the application creates, registers and logs to in SpecLog
MaxLogSinks == 2

\* slots of the registry of the logger (4 in the source)
LOGGER_MAX_SINKS == 2

\* size of the format buffer of the logger (2176 in the source)
LOGGER_BUFFER_SIZE == 8

\* longest text a logger call formats
MaxTextLen == 4

----------------------------------------------------------------------------
(* Program constants *)

NULL == 0

THREADPOOL_PRIORITY_LOW == 0

THREADPOOL_PRIORITY_NORMAL == 1

THREADPOOL_PRIORITY_HIGH == 2

THREADPOOL_PRIORITY_CRITICAL == 3

SHUTDOWN_MSG_PRIO == 255

SHUTDOWN_PUT_TIMEOUT == 100

ThreadPoolPriority ==
  { THREADPOOL_PRIORITY_LOW, THREADPOOL_PRIORITY_NORMAL,
    THREADPOOL_PRIORITY_HIGH, THREADPOOL_PRIORITY_CRITICAL }

ThreadPoolState ==
  { "THREADPOOL_RUNNING", "THREADPOOL_SHUTTING_DOWN", "THREADPOOL_STOPPED" }

ThreadPoolError ==
  { "THREADPOOL_SUCCESS", "THREADPOOL_ERROR_INVALID_ARG",
    "THREADPOOL_ERROR_QUEUE_FULL", "THREADPOOL_ERROR_SHUTDOWN",
    "THREADPOOL_ERROR_NOT_INITIALIZED" }

ExecPriority == { "osPriorityNormal", "osPriorityHigh" }

Timeouts == { 0, SHUTDOWN_PUT_TIMEOUT }

Addr == { 1, 2 }

ThreadId == 1..MaxThreads

AppThread == MaxThreads + 1

\* the thread that runs the idle hook, the caller of
\* core_thread_wait_and_suspend
IdleTask == MaxThreads + 2

----------------------------------------------------------------------------
(* Records *)

\* Task t = {0}
ZeroTask ==
  [ function |-> NULL, is_shutdown_signal |-> FALSE,
    priority |-> THREADPOOL_PRIORITY_LOW, execution_priority |-> "osPriorityNone" ]

NewTask(function, queue_priority, execution_priority) ==
  [ ZeroTask EXCEPT !.function = function,
                    !.priority = queue_priority,
                    !.execution_priority = execution_priority ]

shutdown_task == [ ZeroTask EXCEPT !.is_shutdown_signal = TRUE ]

\* memset(pool, 0, sizeof(ThreadPoolInternal))
ZeroPool ==
  [ task_queue |-> NULL, worker_threads |-> << >>, thread_count |-> 0,
    state |-> "THREADPOOL_RUNNING", active_tasks |-> 0,
    main_thread |-> NULL, low_power_mode |-> FALSE, queue_size |-> 0 ]

NoQueue == [ live |-> FALSE, cap |-> 0, msgs |-> << >> ]

NullConfig == [ null |-> TRUE ]

Configs ==
  [ null : {FALSE}, thread_count : 0..MaxThreadCount, queue_size : 0..MaxQueueSize,
    stack_size : {0, 512}, low_power_mode : BOOLEAN,
    default_thread_priority : {"osPriorityNormal"} ]

\* the init/deinit caller outside a call
AppIdle == [ pc |-> "idle", wait_for_tasks |-> FALSE, pool |-> NULL, i |-> 0 ]

\* the add_task caller outside a call
SubIdle ==
  [ pc |-> "idle", function |-> NULL, queue_priority |-> THREADPOOL_PRIORITY_LOW,
    execution_priority |-> "osPriorityNormal", timeout_ms |-> 0, pre |-> FALSE ]

\* ev records what the step just taken made visible to its caller:
\*   op = "init"      core_thread_init_with_config returned ret; flag: the
\*                    config was NULL; pre: the call found a pool installed
\*   op = "add_task"  core_thread_add_task returned ret; flag: the function
\*                    was NULL; pre: deinit had been called on the pool
\*                    when the call was issued
\*   op = "finish"    a task body returned; flag: osThreadResume was called;
\*                    pre: the main thread was suspended before the step
\*   op = "none"      anything else
NoEvent == [ op |-> "none", ret |-> "none", flag |-> FALSE, pre |-> FALSE ]

Event(op, ret, flag, pre) == [ op |-> op, ret |-> ret, flag |-> flag, pre |-> pre ]

FreeThread ==
  [ st |-> "free", pool |-> NULL, task |-> ZeroTask,
    default_priority |-> "osPriorityNone", priority |-> "osPriorityNone" ]

----------------------------------------------------------------------------
(* Pure helpers *)

Min(a, b) == IF a < b THEN a ELSE b

\* pool->active_tasks is a uint32_t. The model keeps the representative of
\* the value modulo 2^32 that is nearest to zero: -1 stands for 0xFFFFFFFF.
U32Inc(n) == n + 1

U32Dec(n) == n - 1

U32LessEq(n, k) == n >= 0 /\ n <= k

\* every class on one message priority
convert_priority_flat(priority) == 1

convert_priority(priority) ==
  CASE priority = THREADPOOL_PRIORITY_LOW      -> 0
    [] priority = THREADPOOL_PRIORITY_NORMAL   -> 1
    [] priority = THREADPOOL_PRIORITY_HIGH     -> 2
    [] priority = THREADPOOL_PRIORITY_CRITICAL -> 3
    [] OTHER                                   -> 1

\* m goes in front of the messages of its own priority
RECURSIVE InsertByPrio_lifo(_, _)
InsertByPrio_lifo(msgs, m) ==
  IF msgs = << >> THEN << m >>
  ELSE IF Head(msgs).prio > m.prio
       THEN << Head(msgs) >> \o InsertByPrio_lifo(Tail(msgs), m)
       ELSE << m >> \o msgs

\* A queue ordered by message priority: m goes behind every message whose
\* priority is at least its own.
RECURSIVE InsertByPrio(_, _)
InsertByPrio(msgs, m) ==
  IF msgs = << >> THEN << m >>
  ELSE IF Head(msgs).prio >= m.prio
       THEN << Head(msgs) >> \o InsertByPrio(Tail(msgs), m)
       ELSE << m >> \o msgs

\* osMessageQueuePut(q, &task, msg_prio, timeout): the set of outcomes.
\* A full queue gives osErrorResource at once for timeout 0 and
\* osErrorTimeout once the timeout expires otherwise; waiting longer is the
\* absence of a step.
osMessageQueuePut(q, task, msg_prio, timeout) ==
  IF ~q.live THEN { [ status |-> "osErrorParameter", q |-> q ] }
  ELSE IF Len(q.msgs) < q.cap
       THEN { [ status |-> "osOK",
                q |-> [ q EXCEPT !.msgs = InsertByPrio(q.msgs, [ task |-> task, prio |-> msg_prio ]) ] ] }
       ELSE IF timeout = 0
            THEN { [ status |-> "osErrorResource", q |-> q ] }
            ELSE { [ status |-> "osErrorTimeout", q |-> q ] }

----------------------------------------------------------------------------
VARIABLES
  g_threadpool,   \* static ThreadPoolInternal* g_threadpool
  heap,           \* heap[a]: the record at address a is allocated
  mem,            \* mem[a]: the bytes of the ThreadPoolInternal at address a
  mq,             \* mq[a]: the message queue created for the pool at a
  thr,            \* worker threads
  app,            \* the init/deinit caller
  sub,            \* the add_task caller
  idle,           \* the idle hook
  suspended,      \* the main thread is suspended
  ev,             \* history: what the last step returned or called
  acc,            \* history: the accesses to pool->state and
                  \* pool->active_tasks made by the last step, each with
                  \* the mutexes held at that point
  accepted,       \* history: number of tasks add_task has put on a queue;
                  \* the n-th accepted task carries function n
  ctor,           \* history: number of pool records constructed
  shutdownReq,    \* history: core_thread_deinit called on the current pool
  quiesced,       \* history: deinit(true) returned, no construction since
  ahead           \* history: the functions of the ordinary tasks that were
                  \* in a queue when a shutdown task was put on it

----------------------------------------------------------------------------
(* Audio recorder: g_audio_recorder, the two DFSDM filters and the tasks   *)

\* audio_buffer_state_t
AUDIO_BUFFER_EMPTY == "AUDIO_BUFFER_EMPTY"
AUDIO_BUFFER_HALF_FULL == "AUDIO_BUFFER_HALF_FULL"
AUDIO_BUFFER_FULL == "AUDIO_BUFFER_FULL"

AudioBufferState == { AUDIO_BUFFER_EMPTY, AUDIO_BUFFER_HALF_FULL, AUDIO_BUFFER_FULL }

INT32_MAX == 2147483647
INT32_MIN == (-2147483647) - 1
INT16_MAX == 32767
INT16_MIN == -32768

\* indices of left_buffer / right_buffer and of playback_buffer
BufferIndex == 0..(AUDIO_BUFFER_SIZE - 1)
PlaybackIndex == 0..(AUDIO_BUFFER_SIZE * 2 - 1)

\* the half of the capture buffers an index lies in: 0 is
\* [0, AUDIO_BUFFER_SIZE / 2), 1 is [AUDIO_BUFFER_SIZE / 2, AUDIO_BUFFER_SIZE)
HalfOf(i) == IF i < AUDIO_BUFFER_SIZE \div 2 THEN 0 ELSE 1

HalfIndices(h) == { i \in BufferIndex : HalfOf(i) = h }

\* memset(&g_audio_recorder.audio_data, 0, sizeof(audio_data_t)) and the
\* fields audio_recorder_init sets
ZeroAudioData ==
  [ left_buffer |-> [ i \in BufferIndex |-> 0 ],
    right_buffer |-> [ i \in BufferIndex |-> 0 ],
    playback_buffer |-> [ i \in PlaybackIndex |-> 0 ],
    buffer_state |-> AUDIO_BUFFER_EMPTY ]

\* osMessageQueueNew(AUDIO_QUEUE_SIZE, sizeof(audio_buffer_state_t), NULL)
NewAudioQueue == [ live |-> TRUE, cap |-> AUDIO_QUEUE_SIZE, msgs |-> << >> ]

\* the two DMA transfers: which filters convert, and the half of the
\* circular buffers the transfer is filling
HwStopped == [ left |-> FALSE, right |-> FALSE, half |-> 0 ]

\* audio_processor_task: where it is in its loop
ProcWait == [ pc |-> "acquire", start_index |-> 0, end_index |-> 0, i |-> 0 ]

NoAudioEvent == [ op |-> "none", calls |-> << >>, ret |-> "none" ]

\* no sample read yet
NothingSeen == [ i \in BufferIndex |-> << >> ]

VARIABLES
  audio_data,       \* g_audio_recorder.audio_data
  is_recording,     \* g_audio_recorder.is_recording
  audio_semaphore,  \* tokens of g_audio_recorder.audio_semaphore (at most 1)
  audio_queue,      \* g_audio_recorder.audio_queue
  hw,               \* the DFSDM filters and their DMA transfers
  proc,             \* audio_processor_task
  aev,              \* history: the HAL calls the last recorder step made
  posted,           \* history: number of transfer interrupts so far; the
                    \* n-th interrupt posts event n
  dropped,          \* history: events whose osMessageQueuePut failed
  seen,             \* history: seen[i] is the pair of raw samples the pass
                    \* in progress (or the last one) read at index i
  delivered,        \* history: the last event audio_recorder_task dequeued
  woken             \* history: the event whose osSemaphoreRelease produced
                    \* the unit that is pending or was acquired last

audioVars ==
  << audio_data, is_recording, audio_semaphore, audio_queue, hw, proc, aev,
     posted, dropped, seen, delivered, woken >>

\* no unit released yet
NoWakeup == [ state |-> "none", id |-> 0 ]

\* the state audio_recorder_init leaves
AudioInit ==
  /\ audio_data = ZeroAudioData
  /\ is_recording = FALSE
  /\ audio_semaphore = 0
  /\ audio_queue = NewAudioQueue
  /\ hw = HwStopped
  /\ proc = ProcWait
  /\ aev = NoAudioEvent
  /\ posted = 0
  /\ dropped = {}
  /\ seen = NothingSeen
  /\ delivered = 0
  /\ woken = NoWakeup

----------------------------------------------------------------------------
(* The logger: core_logger.c, the sink interface and the UART sink.        *)
(* A sink object is a uart_sink_t; the registry logger.sinks[0..sink_count)*)
(* is a sequence of sink objects, the slots behind sink_count being NULL.  *)
(* A formatted message is the level tag and the length of the buffer       *)
(* contents; a delivery is the call of HAL_UART_Transmit(_DMA) for it.     *)

LOG_LEVEL_DEBUG == 0
LOG_LEVEL_INFO  == 1
LOG_LEVEL_WARN  == 2
LOG_LEVEL_ERROR == 3
LOG_LEVEL_COUNT == 4

LogLevel == LOG_LEVEL_DEBUG..LOG_LEVEL_ERROR

\* the sink objects of the application
SinkId == 1..MaxSinkObjects

\* a static uart_sink_t before uart_sink_create
ZeroSink == [ vtable |-> FALSE, min_level |-> LOG_LEVEL_DEBUG, huart |-> FALSE ]

\* static logger_t logger = {{0}, LOG_LEVEL_DEBUG, {NULL}, 0}
ZeroLogger == [ min_level |-> LOG_LEVEL_DEBUG, sinks |-> << >> ]

NoLogEvent ==
  [ op |-> "none", level |-> 0, len |-> 0, out |-> << >>, sink |-> NULL, ret |-> FALSE ]

\* a registry call on the sink s that returned ret (the calls that return
\* nothing are recorded with ret = FALSE)
RegistryEvent(op, s, ret) == [ NoLogEvent EXCEPT !.op = op, !.sink = s, !.ret = ret ]

VARIABLES
  logger,   \* static logger_t logger: min_level and the registry
  sink,     \* sink[s]: the uart_sink_t s
  lev       \* history: the last core_logger_write call and the transmissions
            \* it caused, in order, or the last registry call, its sink and
            \* what it returned

loggerVars == << logger, sink, lev >>

LoggerInit ==
  /\ logger = ZeroLogger
  /\ sink = [ s \in SinkId |-> ZeroSink ]
  /\ lev = NoLogEvent

vars ==
  << g_threadpool, heap, mem, mq, thr, app, sub, idle, suspended, ev, acc,
     accepted, ctor, shutdownReq, quiesced, ahead, audioVars, loggerVars >>

threadVars ==
  << g_threadpool, heap, mem, mq, thr, app, sub, idle, suspended, ev, acc,
     accepted, ctor, shutdownReq, quiesced, ahead >>

poolVars == << g_threadpool, heap, mem, mq >>

histVars == << accepted, ctor, shutdownReq, quiesced >>

Init ==
  /\ g_threadpool = NULL
  /\ heap = [ a \in Addr |-> FALSE ]
  /\ mem = [ a \in Addr |-> ZeroPool ]
  /\ mq = [ a \in Addr |-> NoQueue ]
  /\ thr = [ t \in ThreadId |-> FreeThread ]
  /\ app = AppIdle
  /\ sub = SubIdle
  /\ ev = NoEvent
  /\ acc = {}
  /\ idle = "idle"
  /\ suspended = FALSE
  /\ accepted = 0
  /\ ctor = 0
  /\ shutdownReq = FALSE
  /\ quiesced = FALSE
  /\ ahead = {}
  /\ AudioInit
  /\ LoggerInit

----------------------------------------------------------------------------
(* The accesses each step makes to pool->state and pool->active_tasks,    *)
(* with the mutexes the code holds at the access.  A mutex of a record    *)
(* that was freed has been deleted: acquiring it fails and holds nothing. *)
(* The operations of a step at which its thread may wait or stop are      *)
(* recorded the same way, with the mutexes it holds when it gets there:   *)
(* kind "acquire" an osMutexAcquire (field: the mutex), "block" a get or  *)
(* put on the task queue, "run" the call of a task body, "suspend" an     *)
(* osThreadSuspend.                                                       *)

Access(field, kind, held, published) ==
  [ field |-> field, kind |-> kind, held |-> held, published |-> published ]

\* osMutexAcquire(pool->m, osWaitForever) on the record at address p
Holding(p, m) == IF heap[p] THEN { m } ELSE {}

\* memset, pool->state = THREADPOOL_RUNNING and pool->active_tasks = 0 on
\* the record just allocated, before the mutexes exist and before any
\* thread has the pointer
ConstructionAccesses ==
  { Access("state", "w", {}, FALSE), Access("active_tasks", "w", {}, FALSE) }

\* pool->active_tasks++ under active_tasks_mutex, then the LOGD argument
\* pool->active_tasks after the release
WorkerStartAccesses(p) ==
  { Access("active_tasks_mutex", "acquire", {}, TRUE),
    Access("active_tasks", "r", Holding(p, "active_tasks_mutex"), TRUE),
    Access("active_tasks", "w", Holding(p, "active_tasks_mutex"), TRUE),
    Access("active_tasks", "r", {}, TRUE),
    Access("body", "run", {}, TRUE) }

\* pool->active_tasks-- and the test
\* pool->low_power_mode && pool->active_tasks == 0 &&
\* pool->state == THREADPOOL_RUNNING, all under active_tasks_mutex, then
\* the LOGD argument pool->active_tasks after the release
\* a mutation of WorkerFinishAccesses: pool->state is read under
\* state_mutex, acquired inside the active_tasks_mutex section
WorkerFinishAccesses_nested(p, after) ==
  { Access("active_tasks_mutex", "acquire", {}, TRUE),
    Access("active_tasks", "r", Holding(p, "active_tasks_mutex"), TRUE),
    Access("active_tasks", "w", Holding(p, "active_tasks_mutex"), TRUE),
    Access("active_tasks", "r", {}, TRUE) }
  \cup (IF after.low_power_mode /\ after.active_tasks = 0
        THEN { Access("state_mutex", "acquire", Holding(p, "active_tasks_mutex"), TRUE),
               Access("state", "r",
                      Holding(p, "active_tasks_mutex") \cup Holding(p, "state_mutex"), TRUE) }
        ELSE {})

WorkerFinishAccesses(p, after) ==
  { Access("active_tasks_mutex", "acquire", {}, TRUE),
    Access("active_tasks", "r", Holding(p, "active_tasks_mutex"), TRUE),
    Access("active_tasks", "w", Holding(p, "active_tasks_mutex"), TRUE),
    Access("active_tasks", "r", {}, TRUE) }
  \cup (IF after.low_power_mode /\ after.active_tasks = 0
        THEN { Access("state", "r", Holding(p, "active_tasks_mutex"), TRUE) }
        ELSE {})

\* bool can_accept = (g_threadpool->state == THREADPOOL_RUNNING) under
\* state_mutex
AddTaskAccesses(function) ==
  IF g_threadpool # NULL /\ function # NULL
  THEN { Access("state_mutex", "acquire", {}, TRUE),
         Access("state", "r", Holding(g_threadpool, "state_mutex"), TRUE) }
  ELSE {}

\* pool->state = THREADPOOL_SHUTTING_DOWN between acquire and release of
\* state_mutex
SetStateAccesses(p) ==
  { Access("state_mutex", "acquire", {}, TRUE),
    Access("state", "w", Holding(p, "state_mutex"), TRUE) }

\* uint32_t active = pool->active_tasks under active_tasks_mutex
ReadActiveAccesses(p) ==
  { Access("active_tasks_mutex", "acquire", {}, TRUE),
    Access("active_tasks", "r", Holding(p, "active_tasks_mutex"), TRUE) }

\* pool->state = THREADPOOL_STOPPED after both mutexes were deleted
StoppedAccesses ==
  { Access("state", "w", {}, TRUE) }

\* osMessageQueueGet / osMessageQueuePut on the task queue, called with no
\* mutex held
QueueAccesses ==
  { Access("task_queue", "block", {}, TRUE) }

\* osThreadSuspend(g_threadpool->main_thread), after active_tasks_mutex was
\* released
SuspendAccesses ==
  { Access("thread", "suspend", {}, TRUE) }

----------------------------------------------------------------------------
(* Pool construction: core_thread_init_with_config and                    *)
(* create_threadpool_internal                                             *)

ValidConfig(config) ==
  ~(config.thread_count = 0 \/ config.queue_size = 0 \/ config.stack_size = 0)

\* where a construction may fail: << "thread", k >> is the k-th osThreadNew
FailPoints(config) ==
  { << f, 1 >> : f \in { "none", "pool", "mutex", "queue", "array" } }
    \cup IF config.null THEN {}
         ELSE { << "thread", k >> : k \in 1..config.thread_count }

FreeSlots == { t \in ThreadId : thr[t].st = "free" }

\* the n smallest elements of S, in increasing order
RECURSIVE FirstN(_, _)
FirstN(S, n) ==
  IF n = 0 \/ S = {} THEN << >>
  ELSE LET m == CHOOSE x \in S : \A y \in S : x <= y
       IN  << m >> \o FirstN(S \ {m}, n - 1)

SeqRange(s) == { s[j] : j \in 1..Len(s) }

\* the fields create_threadpool_internal stores before any OS object exists
PoolHeader(config) ==
  [ ZeroPool EXCEPT !.thread_count = config.thread_count,
                    !.queue_size = config.queue_size,
                    !.state = "THREADPOOL_RUNNING",
                    !.low_power_mode = config.low_power_mode,
                    !.active_tasks = 0,
                    !.main_thread = IF config.low_power_mode THEN AppThread ELSE NULL ]

NewWorker(a, config) ==
  [ st |-> "wait", pool |-> a, task |-> ZeroTask,
    default_priority |-> config.default_thread_priority,
    priority |-> config.default_thread_priority ]

\* worker threads the loop at "Create worker threads" starts before it
\* stops: all of them, or those before the first osThreadNew that fails
\* (the fail-th, or the first one for which no thread slot is left)
ThreadsStarted(config, fail, k) ==
  FirstN(FreeSlots,
         Min(config.thread_count,
             IF fail = "thread" THEN k - 1 ELSE config.thread_count))

\* the error: label of create_threadpool_internal. Queue and mutexes are
\* deleted, the array and the record are freed; threads already started
\* are not touched.
CreateFails(config, a, fail, k) ==
  LET slots == IF fail \in {"mutex", "queue", "array"} THEN << >>
               ELSE ThreadsStarted(config, fail, k)
      hasq  == fail \in {"array", "thread", "none"}
  IN  /\ mem' = [ mem EXCEPT ![a] =
                    [ PoolHeader(config) EXCEPT
                        !.task_queue = IF hasq THEN a ELSE NULL,
                        !.worker_threads = slots ] ]
      /\ mq' = [ mq EXCEPT ![a] = NoQueue ]
      /\ heap' = [ heap EXCEPT ![a] = FALSE ]
      /\ thr' = [ t \in ThreadId |->
                    IF t \in SeqRange(slots) THEN NewWorker(a, config)
                    ELSE thr[t] ]
      /\ ev' = Event("init", "false", FALSE, FALSE)
      /\ UNCHANGED << g_threadpool, shutdownReq, quiesced >>

CreateSucceeds(config, a) ==
  LET slots == FirstN(FreeSlots, config.thread_count)
  IN  /\ mem' = [ mem EXCEPT ![a] =
                    [ PoolHeader(config) EXCEPT
                        !.task_queue = a, !.worker_threads = slots ] ]
      /\ mq' = [ mq EXCEPT ![a] =
                    [ live |-> TRUE, cap |-> config.queue_size, msgs |-> << >> ] ]
      /\ heap' = [ heap EXCEPT ![a] = TRUE ]
      /\ thr' = [ t \in ThreadId |->
                    IF t \in SeqRange(slots) THEN NewWorker(a, config)
                    ELSE thr[t] ]
      /\ g_threadpool' = a
      /\ ev' = Event("init", "true", FALSE, FALSE)
      /\ shutdownReq' = FALSE
      /\ quiesced' = FALSE

create_threadpool_internal(config, a, fail, k) ==
  /\ ctor < MaxCtor
  /\ ~heap[a]
  /\ (\A b \in Addr : mem[b] = ZeroPool) => a = 1
  /\ ctor' = ctor + 1
  /\ IF fail \in {"mutex", "queue", "array", "thread"}
        \/ Cardinality(FreeSlots) < config.thread_count
     THEN CreateFails(config, a, fail, k)
     ELSE CreateSucceeds(config, a)
  /\ UNCHANGED << app, sub, idle, suspended, accepted >>

\* an existing pool makes the call fail
InitCheck_refuse(config) ==
  IF config.null THEN "false"
  ELSE IF g_threadpool # NULL THEN "false"
  ELSE "create"

\* the two tests core_thread_init_with_config makes before it constructs:
\* config == NULL returns false, g_threadpool != NULL returns true
InitCheck(config) ==
  IF config.null THEN "false"
  ELSE IF g_threadpool # NULL THEN "true"
  ELSE "create"

core_thread_init_with_config(config, f) ==
  /\ app.pc = "idle"
  /\ ~suspended
  /\ (config.null \/ g_threadpool # NULL \/ ~ValidConfig(config)) => f[1] = "none"
  /\ IF InitCheck(config) # "create"
     THEN /\ ev' = Event("init", InitCheck(config), config.null, ~config.null)
          /\ UNCHANGED << poolVars, thr, app, sub, idle, suspended, histVars >>
     ELSE IF ~ValidConfig(config)
     THEN /\ ev' = Event("init", "false", FALSE, FALSE)
          /\ UNCHANGED << poolVars, thr, app, sub, idle, suspended, histVars >>
     ELSE IF f[1] = "pool"
     THEN /\ ev' = Event("init", "false", FALSE, FALSE)
          /\ UNCHANGED << poolVars, thr, app, sub, idle, suspended, histVars >>
     ELSE \E a \in Addr : create_threadpool_internal(config, a, f[1], f[2])
  /\ acc' = IF ~config.null /\ g_threadpool = NULL /\ ValidConfig(config) /\ f[1] # "pool"
             THEN ConstructionAccesses ELSE {}
  /\ UNCHANGED << audioVars, loggerVars >>
  /\ UNCHANGED ahead

----------------------------------------------------------------------------
(* worker_thread_function *)

\* the test without the comparison of the counter
ShouldResume_any(pool) ==
  /\ pool.low_power_mode
  /\ pool.state = "THREADPOOL_RUNNING"
  /\ pool.main_thread # NULL

\* the low-power test after the decrement
ShouldResume(pool) ==
  /\ pool.low_power_mode
  /\ pool.active_tasks = 0
  /\ pool.state = "THREADPOOL_RUNNING"
  /\ pool.main_thread # NULL

\* osMessageQueueGet(pool->task_queue, &task, NULL, osWaitForever), then the
\* shutdown test. A worker whose queue is empty or deleted stays in the call.
\* The kernel hands a message to one of the threads blocked on the queue;
\* blocked workers with equal records are interchangeable, and the one with
\* the lowest id stands for them.
\* a get that leaves the message in the queue
osMessageQueueGet_peek(msgs) == msgs

\* osMessageQueueGet(pool->task_queue, &task, NULL, osWaitForever): the
\* message at the head is copied out and removed
osMessageQueueGet(msgs) == Tail(msgs)

WorkerGet(t) ==
  LET p == thr[t].pool
      h == mem[p].task_queue
  IN  /\ thr[t].st = "wait"
      /\ \A u \in ThreadId : u < t => thr[u] # thr[t]
      /\ h # NULL
      /\ mq[h].live
      /\ mq[h].msgs # << >>
      /\ LET task == Head(mq[h].msgs).task
         IN  /\ mq' = [ mq EXCEPT ![h].msgs = osMessageQueueGet(@) ]
             /\ IF task.is_shutdown_signal
                THEN thr' = [ thr EXCEPT ![t] = FreeThread ]
                ELSE thr' = [ thr EXCEPT ![t].st = "got", ![t].task = task ]
      /\ ev' = NoEvent
      /\ UNCHANGED << g_threadpool, heap, mem, app, sub, idle, suspended, histVars >>
      /\ acc' = QueueAccesses
      /\ UNCHANGED << audioVars, loggerVars >>
      /\ UNCHANGED ahead

\* the priority adjustment skipped: the body runs at the worker's priority
BodyPriority_keep(w) == w.priority

\* if (task.execution_priority != default_priority)
\*   osThreadSetPriority(current_thread_id, task.execution_priority);
BodyPriority(w) ==
  IF w.task.execution_priority # w.default_priority
  THEN w.task.execution_priority ELSE w.priority

\* pool->active_tasks++, the priority adjustment and the call of the body
WorkerStart(t) ==
  LET p == thr[t].pool
  IN  /\ thr[t].st = "got"
      /\ mem' = [ mem EXCEPT ![p].active_tasks = U32Inc(@) ]
      /\ thr' = [ thr EXCEPT ![t].st = "run", ![t].priority = BodyPriority(thr[t]) ]
      /\ ev' = NoEvent
      /\ UNCHANGED << g_threadpool, heap, mq, app, sub, idle, suspended, histVars >>
      /\ acc' = WorkerStartAccesses(p)
      /\ UNCHANGED << audioVars, loggerVars >>
      /\ UNCHANGED ahead

\* the body returns: priority restored, pool->active_tasks--, low-power resume
WorkerFinish(t) ==
  LET p == thr[t].pool
      after == [ mem[p] EXCEPT !.active_tasks = U32Dec(@) ]
  IN  /\ thr[t].st = "run"
      /\ mem' = [ mem EXCEPT ![p] = after ]
      /\ thr' = [ thr EXCEPT ![t].st = "wait", ![t].task = ZeroTask,
                             ![t].priority = thr[t].default_priority ]
      /\ suspended' = IF ShouldResume(after) THEN FALSE ELSE suspended
      /\ ev' = Event("finish", "none", ShouldResume(after), suspended)
      /\ UNCHANGED << g_threadpool, heap, mq, app, sub, idle, histVars >>
      /\ acc' = WorkerFinishAccesses(p, after)
      /\ UNCHANGED << audioVars, loggerVars >>
      /\ UNCHANGED ahead

----------------------------------------------------------------------------
(* core_thread_add_task *)

\* the checks without the state test
AddTaskCheck_nostate(function) ==
  IF g_threadpool = NULL THEN "THREADPOOL_ERROR_NOT_INITIALIZED"
  ELSE IF function = NULL THEN "THREADPOOL_ERROR_INVALID_ARG"
  ELSE "proceed"

\* the checks without the function test
AddTaskCheck_nonull(function) ==
  IF g_threadpool = NULL THEN "THREADPOOL_ERROR_NOT_INITIALIZED"
  ELSE IF mem[g_threadpool].state # "THREADPOOL_RUNNING" THEN "THREADPOOL_ERROR_SHUTDOWN"
  ELSE "proceed"

\* the checks made before the task is built; "proceed" continues to the put
AddTaskCheck(function) ==
  IF g_threadpool = NULL THEN "THREADPOOL_ERROR_NOT_INITIALIZED"
  ELSE IF function = NULL THEN "THREADPOOL_ERROR_INVALID_ARG"
  ELSE IF mem[g_threadpool].state # "THREADPOOL_RUNNING" THEN "THREADPOOL_ERROR_SHUTDOWN"
  ELSE "proceed"

\* the switch with osErrorResource falling to the success case
StatusToError_ok(status) ==
  CASE status = "osErrorTimeout"  -> "THREADPOOL_ERROR_QUEUE_FULL"
    [] OTHER                      -> "THREADPOOL_SUCCESS"

\* switch (status) after osMessageQueuePut
StatusToError(status) ==
  CASE status = "osOK"            -> "THREADPOOL_SUCCESS"
    [] status = "osErrorTimeout"  -> "THREADPOOL_ERROR_QUEUE_FULL"
    [] status = "osErrorResource" -> "THREADPOOL_ERROR_QUEUE_FULL"
    [] OTHER                      -> "THREADPOOL_ERROR_QUEUE_FULL"

\* the queue g_threadpool->task_queue names at this moment
CurrentQueueHandle ==
  IF g_threadpool = NULL THEN NULL ELSE mem[g_threadpool].task_queue

QueueAt(h) == IF h = NULL THEN NoQueue ELSE mq[h]

\* A function the application submits again and again (the submissions of
\* every other function are numbered 1, 2, ... in the order they are
\* accepted, so that each of them is told apart from the others).
RecurringFunction == 0 - 1

\* entry of core_thread_add_task up to the state check
AddTaskCall(function, queue_priority, execution_priority, timeout_ms) ==
  /\ sub.pc = "idle"
  /\ function \in { NULL, accepted + 1, RecurringFunction }
  /\ LET check == AddTaskCheck(function)
     IN  IF check = "proceed"
         THEN /\ sub' = [ pc |-> "put", function |-> function,
                          queue_priority |-> queue_priority,
                          execution_priority |-> execution_priority,
                          timeout_ms |-> timeout_ms, pre |-> shutdownReq ]
              /\ ev' = NoEvent
         ELSE /\ sub' = SubIdle
              /\ ev' = Event("add_task", check, function = NULL, shutdownReq)
  /\ UNCHANGED << poolVars, thr, app, idle, suspended, histVars >>
  /\ acc' = AddTaskAccesses(function)
  /\ UNCHANGED << audioVars, loggerVars >>
  /\ UNCHANGED ahead

\* osMessageQueuePut(g_threadpool->task_queue, &task, msg_queue_priority,
\* timeout_ms) and the return
AddTaskPut ==
  /\ sub.pc = "put"
  /\ LET h    == CurrentQueueHandle
         task == NewTask(sub.function, sub.queue_priority, sub.execution_priority)
     IN  \E o \in osMessageQueuePut(QueueAt(h), task,
                                    convert_priority(sub.queue_priority), sub.timeout_ms) :
           /\ mq' = IF o.status = "osOK" THEN [ mq EXCEPT ![h] = o.q ] ELSE mq
           /\ sub' = SubIdle
           /\ ev' = Event("add_task", StatusToError(o.status), FALSE, sub.pre)
           /\ accepted' = IF o.status = "osOK" /\ sub.function # RecurringFunction
                          THEN accepted + 1 ELSE accepted
  /\ UNCHANGED << g_threadpool, heap, mem, thr, app, idle, suspended,
                  ctor, shutdownReq, quiesced >>
  /\ acc' = QueueAccesses
  /\ UNCHANGED << audioVars, loggerVars >>
  /\ UNCHANGED ahead

----------------------------------------------------------------------------
(* core_thread_deinit and destroy_threadpool_internal *)

\* pool->state = THREADPOOL_SHUTTING_DOWN
MarkShuttingDown(pool) == [ pool EXCEPT !.state = "THREADPOOL_SHUTTING_DOWN" ]

\* the final state written as RUNNING
MarkStopped_running(pool) == [ pool EXCEPT !.state = "THREADPOOL_RUNNING" ]

\* pool->state = THREADPOOL_STOPPED
MarkStopped(pool) == [ pool EXCEPT !.state = "THREADPOOL_STOPPED" ]

\* the functions of the ordinary tasks among the messages of a queue
OrdinaryIn(msgs) ==
  { msgs[k].task.function : k \in { j \in 1..Len(msgs) : ~msgs[j].task.is_shutdown_signal } }

\* entry of core_thread_deinit
DeinitCall(wait_for_tasks) ==
  /\ app.pc = "idle"
  /\ ~suspended
  /\ IF g_threadpool = NULL
     THEN UNCHANGED << app, shutdownReq >>
     ELSE /\ app' = [ app EXCEPT !.pc = "d_state", !.wait_for_tasks = wait_for_tasks,
                                 !.pool = g_threadpool, !.i = 0 ]
          /\ shutdownReq' = TRUE
  /\ ev' = NoEvent
  /\ UNCHANGED << poolVars, thr, sub, idle, suspended, accepted, ctor, quiesced >>
  /\ acc' = {}
  /\ UNCHANGED << audioVars, loggerVars >>
  /\ UNCHANGED ahead

\* pool->state = THREADPOOL_SHUTTING_DOWN under state_mutex
DeinitSetState ==
  /\ app.pc = "d_state"
  /\ ~suspended
  /\ mem' = [ mem EXCEPT ![app.pool] = MarkShuttingDown(@) ]
  /\ app' = [ app EXCEPT !.pc = IF app.wait_for_tasks THEN "d_wait" ELSE "d_signal" ]
  /\ ev' = NoEvent
  /\ UNCHANGED << g_threadpool, heap, mq, thr, sub, idle, suspended, histVars >>
  /\ acc' = SetStateAccesses(app.pool)
  /\ UNCHANGED << audioVars, loggerVars >>
  /\ UNCHANGED ahead

\* the polling loop leaves when it reads active == 0
DeinitWait ==
  /\ app.pc = "d_wait"
  /\ ~suspended
  /\ mem[app.pool].active_tasks = 0
  /\ app' = [ app EXCEPT !.pc = "d_signal" ]
  /\ ev' = NoEvent
  /\ UNCHANGED << poolVars, thr, sub, idle, suspended, histVars >>
  /\ acc' = ReadActiveAccesses(app.pool)
  /\ UNCHANGED << audioVars, loggerVars >>
  /\ UNCHANGED ahead

\* one iteration of the loop that posts the shutdown signals
DeinitSignal ==
  LET pool == mem[app.pool]
      h    == pool.task_queue
      next == app.i + 1
  IN  /\ app.pc = "d_signal"
      /\ ~suspended
      /\ IF h # NULL /\ app.i < pool.thread_count
         THEN /\ \E o \in osMessageQueuePut(mq[h], shutdown_task,
                                            SHUTDOWN_MSG_PRIO, SHUTDOWN_PUT_TIMEOUT) :
                   /\ mq' = IF o.status = "osOK" THEN [ mq EXCEPT ![h] = o.q ] ELSE mq
                   /\ ahead' = IF o.status = "osOK"
                               THEN ahead \cup OrdinaryIn(mq[h].msgs) ELSE ahead
              /\ app' = [ app EXCEPT !.i = next,
                                     !.pc = IF next < pool.thread_count
                                            THEN "d_signal" ELSE "d_free" ]
         ELSE /\ app' = [ app EXCEPT !.pc = "d_free" ]
              /\ UNCHANGED << mq, ahead >>
      /\ ev' = NoEvent
      /\ UNCHANGED << g_threadpool, heap, mem, thr, sub, idle, suspended, histVars >>
      /\ acc' = IF h # NULL /\ app.i < pool.thread_count THEN QueueAccesses ELSE {}
      /\ UNCHANGED << audioVars, loggerVars >>

\* osDelay(100), then "Clean up resources": queue and mutexes deleted,
\* state = THREADPOOL_STOPPED, record freed
DeinitFree ==
  LET h == mem[app.pool].task_queue
  IN  /\ app.pc = "d_free"
      /\ ~suspended
      /\ mq' = IF h # NULL THEN [ mq EXCEPT ![h] = NoQueue ] ELSE mq
      /\ mem' = [ mem EXCEPT ![app.pool] = MarkStopped(@) ]
      /\ heap' = [ heap EXCEPT ![app.pool] = FALSE ]
      /\ app' = [ app EXCEPT !.pc = "d_null" ]
      /\ ev' = NoEvent
      /\ UNCHANGED << g_threadpool, thr, sub, idle, suspended, histVars >>
      /\ acc' = StoppedAccesses
      /\ UNCHANGED << audioVars, loggerVars >>
      /\ UNCHANGED ahead

\* g_threadpool = NULL and return of core_thread_deinit
DeinitReturn ==
  /\ app.pc = "d_null"
  /\ ~suspended
  /\ g_threadpool' = NULL
  /\ app' = AppIdle
  /\ ev' = NoEvent
  /\ quiesced' = app.wait_for_tasks
  /\ UNCHANGED << heap, mem, mq, thr, sub, idle, suspended, accepted, ctor, shutdownReq >>
  /\ acc' = {}
  /\ UNCHANGED << audioVars, loggerVars >>
  /\ UNCHANGED ahead

----------------------------------------------------------------------------
(* core_thread_wait_and_suspend, called from the idle hook *)

\* a mutation of has_active_tasks: the counter is not looked at
has_active_tasks_always(pool) == TRUE

\* bool_t has_active_tasks = (g_threadpool->active_tasks > 0), unsigned
has_active_tasks(pool) == pool.active_tasks # 0

WaitAndSuspendCheck ==
  /\ idle = "idle"
  /\ IF g_threadpool # NULL
        /\ mem[g_threadpool].low_power_mode
        /\ has_active_tasks(mem[g_threadpool])
        /\ mem[g_threadpool].main_thread # NULL
     THEN idle' = "suspend"
     ELSE UNCHANGED idle
  /\ ev' = NoEvent
  /\ UNCHANGED << poolVars, thr, app, sub, suspended, histVars >>
  /\ acc' = IF g_threadpool # NULL /\ mem[g_threadpool].low_power_mode
             THEN ReadActiveAccesses(g_threadpool) ELSE {}
  /\ UNCHANGED << audioVars, loggerVars >>
  /\ UNCHANGED ahead

\* osThreadSuspend(g_threadpool->main_thread)
WaitAndSuspendDo ==
  /\ idle = "suspend"
  /\ idle' = "idle"
  /\ ev' = NoEvent
  /\ suspended' = IF g_threadpool # NULL /\ mem[g_threadpool].main_thread = AppThread
                  THEN TRUE ELSE suspended
  /\ UNCHANGED << poolVars, thr, app, sub, histVars >>
  /\ acc' = SuspendAccesses
  /\ UNCHANGED << audioVars, loggerVars >>
  /\ UNCHANGED ahead

----------------------------------------------------------------------------
(* Monitoring calls: pure reads *)

core_thread_get_active_tasks_count ==
  IF g_threadpool = NULL \/ mem[g_threadpool].task_queue = NULL THEN 0
  ELSE mem[g_threadpool].active_tasks

core_thread_get_active_tasks_count_wo_mutex ==
  IF g_threadpool = NULL THEN 0 ELSE mem[g_threadpool].active_tasks

core_thread_is_idle == core_thread_get_active_tasks_count = 0

core_thread_get_state ==
  IF g_threadpool = NULL THEN "THREADPOOL_STOPPED" ELSE mem[g_threadpool].state

----------------------------------------------------------------------------
(* audio_processor_task: the sample conversion *)

\* v >> 8 on an int32_t: the arithmetic shift of the target, which keeps the
\* sign (the quotient rounded towards minus infinity)
ShiftRight8(v) == v \div 256

\* without the test of the lower limit
Saturate16_upper(s) ==
  IF s > INT16_MAX THEN INT16_MAX ELSE s

\* if (s > 32767) s = 32767; else if (s < -32768) s = -32768;
Saturate16(s) ==
  IF s > INT16_MAX THEN INT16_MAX
  ELSE IF s < INT16_MIN THEN INT16_MIN ELSE s

\* (int16_t)x: the low 16 bits, read as a signed number
ToInt16(x) == ((x + 32768) % 65536) - 32768

\* one raw sample to one playback sample
ConvertSample(v) == ToInt16(Saturate16(ShiftRight8(v)))

----------------------------------------------------------------------------
(* audio_recorder_start, audio_recorder_stop *)

\* the HAL calls of audio_recorder_start, in the order it makes them
StartCalls == << "config_left", "config_right", "start_right", "start_left" >>

\* the call that returns an error, or "none"
StartFail == { "none" } \cup { StartCalls[k] : k \in 1..Len(StartCalls) }

\* every call is made whichever fails
CallsUntil_all(calls, fail) == calls

\* the calls made when the call fail returns an error: every call up to and
\* including that one
RECURSIVE CallsUntil(_, _)
CallsUntil(calls, fail) ==
  IF calls = << >> THEN << >>
  ELSE IF Head(calls) = fail THEN << fail >>
       ELSE << Head(calls) >> \o CallsUntil(Tail(calls), fail)

SeqElems(q) == { q[k] : k \in 1..Len(q) }

\* the start test without the is_recording guard
StartSkips_never == FALSE

\* if (g_audio_recorder.is_recording) return;
StartSkips == is_recording

\* is_recording set whatever the HAL calls returned
RecordingAfterStart_always(fail) == TRUE

\* g_audio_recorder.is_recording = true is reached only when no HAL call
\* made the function return before
RecordingAfterStart(fail) == fail = "none"

audio_recorder_start(fail) ==
  /\ IF StartSkips
     THEN /\ aev' = [ op |-> "start", calls |-> << >>, ret |-> "skip" ]
          /\ UNCHANGED << is_recording, hw >>
     ELSE LET calls == CallsUntil(StartCalls, fail)
              ok(c) == c \in SeqElems(calls) /\ c # fail
              stopped == ~hw.left /\ ~hw.right
          IN  /\ hw' = [ left  |-> hw.left \/ ok("start_left"),
                         right |-> hw.right \/ ok("start_right"),
                         half  |-> IF stopped THEN 0 ELSE hw.half ]
              /\ is_recording' = RecordingAfterStart(fail)
              /\ aev' = [ op |-> "start", calls |-> calls,
                          ret |-> IF fail = "none" THEN "started" ELSE fail ]
  /\ UNCHANGED << audio_data, audio_semaphore, audio_queue, proc, posted,
                  dropped, seen, delivered >>
  /\ UNCHANGED woken
  /\ UNCHANGED << threadVars, loggerVars >>

\* the stop test that never returns early
StopSkips_never == FALSE

\* if (!g_audio_recorder.is_recording) return;
StopSkips == ~is_recording

audio_recorder_stop ==
  /\ IF StopSkips
     THEN /\ aev' = [ op |-> "stop", calls |-> << >>, ret |-> "skip" ]
          /\ UNCHANGED << is_recording, hw >>
     ELSE /\ hw' = [ hw EXCEPT !.left = FALSE, !.right = FALSE ]
          /\ is_recording' = FALSE
          /\ aev' = [ op |-> "stop", calls |-> << "stop_left", "stop_right" >>,
                      ret |-> "stopped" ]
  /\ UNCHANGED << audio_data, audio_semaphore, audio_queue, proc, posted,
                  dropped, seen, delivered >>
  /\ UNCHANGED woken
  /\ UNCHANGED << threadVars, loggerVars >>

----------------------------------------------------------------------------
(* The DMA transfers and the transfer interrupts *)

\* the transfer of a running filter stores sample v in every entry of half h
DmaStore(buffer, running, h, v) ==
  IF running THEN [ i \in BufferIndex |-> IF HalfOf(i) = h THEN v ELSE buffer[i] ]
  ELSE buffer

\* A transfer has filled half h with the samples l and r and now fills the
\* other half; the interrupt calls the callback, which sets buffer_state and
\* posts it with osMessageQueuePut(queue, &state, 0, 0).
\* buffer_state written only when the event was queued
BufferStateAfter_queued(old, state, status) ==
  IF status = "osOK" THEN state ELSE old

\* g_audio_recorder.audio_data.buffer_state = <tag>; is the first statement
\* of the callback: the value of the field afterwards does not depend on
\* what osMessageQueuePut returns
BufferStateAfter(old, state, status) == state

TransferComplete(h, state, l, r) ==
  /\ hw.left \/ hw.right
  /\ hw.half = h
  /\ posted < MaxIrq
  /\ hw' = [ hw EXCEPT !.half = 1 - h ]
  /\ posted' = posted + 1
  /\ \E o \in osMessageQueuePut(audio_queue, [ state |-> state, id |-> posted + 1 ], 0, 0) :
       /\ audio_queue' = o.q
       /\ dropped' = IF o.status = "osOK" THEN dropped ELSE dropped \cup { posted + 1 }
       /\ aev' = [ op |-> "irq", calls |-> << >>, ret |-> o.status ]
       /\ audio_data' = [ audio_data EXCEPT
                            !.left_buffer = DmaStore(@, hw.left, h, l),
                            !.right_buffer = DmaStore(@, hw.right, h, r),
                            !.buffer_state = BufferStateAfter(@, state, o.status) ]
  /\ UNCHANGED << is_recording, audio_semaphore, proc, seen, delivered >>
  /\ UNCHANGED woken
  /\ UNCHANGED << threadVars, loggerVars >>

audio_recorder_half_complete_callback(l, r) ==
  TransferComplete(0, AUDIO_BUFFER_HALF_FULL, l, r)

\* the callback of the full transfer reporting a half transfer
audio_recorder_full_complete_callback_half(l, r) ==
  TransferComplete(1, AUDIO_BUFFER_HALF_FULL, l, r)

audio_recorder_full_complete_callback(l, r) ==
  TransferComplete(1, AUDIO_BUFFER_FULL, l, r)

----------------------------------------------------------------------------
(* audio_recorder_task, audio_processor_task *)

\* osSemaphoreRelease on a semaphore of maximum count 1
osSemaphoreRelease(count) == IF count < 1 THEN count + 1 ELSE count

\* one turn of the loop of audio_recorder_task
audio_recorder_task ==
  /\ audio_queue.live
  /\ audio_queue.msgs # << >>
  /\ LET m == Head(audio_queue.msgs).task
     IN  /\ audio_queue' = [ audio_queue EXCEPT !.msgs = Tail(@) ]
         /\ delivered' = m.id
         /\ audio_semaphore' =
              IF m.state \in { AUDIO_BUFFER_HALF_FULL, AUDIO_BUFFER_FULL }
              THEN osSemaphoreRelease(audio_semaphore) ELSE audio_semaphore
         /\ woken' =
              IF /\ m.state \in { AUDIO_BUFFER_HALF_FULL, AUDIO_BUFFER_FULL }
                 /\ osSemaphoreRelease(audio_semaphore) # audio_semaphore
              THEN m ELSE woken
  /\ aev' = [ op |-> "notify", calls |-> << >>, ret |-> "none" ]
  /\ UNCHANGED << audio_data, is_recording, hw, proc, posted, dropped, seen >>
  /\ UNCHANGED << threadVars, loggerVars >>

\* the test of is_recording left out: every unit starts a pass
AfterAcquire_always(recording) == "latch"

\* if (!g_audio_recorder.is_recording) continue;
AfterAcquire(recording) == IF recording THEN "latch" ELSE "acquire"

\* osSemaphoreAcquire returns and is_recording is tested
ProcAcquire ==
  /\ proc.pc = "acquire"
  /\ audio_semaphore > 0
  /\ audio_semaphore' = audio_semaphore - 1
  /\ proc' = [ proc EXCEPT !.pc = AfterAcquire(is_recording) ]
  /\ aev' = [ op |-> "acquire", calls |-> << >>,
              ret |-> IF is_recording THEN "none" ELSE "discard" ]
  /\ UNCHANGED << audio_data, is_recording, audio_queue, hw, posted, dropped,
                  seen, delivered >>
  /\ UNCHANGED woken
  /\ UNCHANGED << threadVars, loggerVars >>

\* the pass over the second half chosen for the half-transfer state
PassStart_half(state) ==
  IF state = AUDIO_BUFFER_HALF_FULL THEN AUDIO_BUFFER_SIZE \div 2 ELSE 0

\* start_index = 0, or AUDIO_BUFFER_SIZE / 2 if buffer_state ==
\* AUDIO_BUFFER_FULL
PassStart(state) ==
  IF state = AUDIO_BUFFER_FULL THEN AUDIO_BUFFER_SIZE \div 2 ELSE 0

\* end_index = AUDIO_BUFFER_SIZE / 2, or AUDIO_BUFFER_SIZE if buffer_state ==
\* AUDIO_BUFFER_FULL
PassEnd(state) ==
  IF state = AUDIO_BUFFER_FULL THEN AUDIO_BUFFER_SIZE ELSE AUDIO_BUFFER_SIZE \div 2

\* the bounds of the pass, from buffer_state as it is now
ProcLatch ==
  /\ proc.pc = "latch"
  /\ LET start_index == PassStart(audio_data.buffer_state)
         end_index == PassEnd(audio_data.buffer_state)
     IN  proc' = [ pc |-> "loop", start_index |-> start_index,
                   end_index |-> end_index, i |-> start_index ]
  /\ aev' = [ op |-> "latch", calls |-> << >>, ret |-> audio_data.buffer_state ]
  /\ seen' = NothingSeen
  /\ UNCHANGED << audio_data, is_recording, audio_semaphore, audio_queue, hw,
                  posted, dropped, delivered >>
  /\ UNCHANGED woken
  /\ UNCHANGED << threadVars, loggerVars >>

\* the two stores of a turn, with the channels exchanged
PlaybackStore_swapped(buffer, i, left_sample, right_sample) ==
  [ k \in PlaybackIndex |->
      IF k = 2 * i THEN right_sample
      ELSE IF k = 2 * i + 1 THEN left_sample
      ELSE buffer[k] ]

\* playback_buffer[2 * i] = left_sample; playback_buffer[2 * i + 1] = right_sample
PlaybackStore(buffer, i, left_sample, right_sample) ==
  [ k \in PlaybackIndex |->
      IF k = 2 * i THEN left_sample
      ELSE IF k = 2 * i + 1 THEN right_sample
      ELSE buffer[k] ]

\* one turn of the for loop
ProcSample ==
  /\ proc.pc = "loop"
  /\ LET i == proc.i
         left_raw == audio_data.left_buffer[i]
         right_raw == audio_data.right_buffer[i]
     IN  /\ audio_data' = [ audio_data EXCEPT
                              !.playback_buffer =
                                 PlaybackStore(@, i, ConvertSample(left_raw),
                                               ConvertSample(right_raw)) ]
         /\ seen' = [ seen EXCEPT ![i] = << left_raw, right_raw >> ]
         /\ proc' = [ proc EXCEPT !.i = i + 1,
                                  !.pc = IF i + 1 < proc.end_index THEN "loop" ELSE "acquire" ]
         /\ aev' = [ op |-> IF i + 1 < proc.end_index THEN "sample" ELSE "pass",
                     calls |-> << >>, ret |-> "none" ]
  /\ UNCHANGED << is_recording, audio_semaphore, audio_queue, hw, posted,
                  dropped, delivered >>
  /\ UNCHANGED woken
  /\ UNCHANGED << threadVars, loggerVars >>

----------------------------------------------------------------------------
(* Logger operations *)

\* uart_sink_create with a config whose huart is set: log_sink_init stores
\* the vtable and min_level, then the UART fields are stored
uart_sink_create(s, min_level) ==
  /\ sink' = [ sink EXCEPT ![s] = [ vtable |-> TRUE, min_level |-> min_level,
                                    huart |-> TRUE ] ]
  /\ lev' = NoLogEvent
  /\ UNCHANGED logger
  /\ UNCHANGED << threadVars, audioVars >>

\* sink->vtable->set_level(sink, min_level) on a created sink
uart_sink_set_level(s, min_level) ==
  /\ sink[s].vtable
  /\ sink' = [ sink EXCEPT ![s].min_level = min_level ]
  /\ lev' = NoLogEvent
  /\ UNCHANGED logger
  /\ UNCHANGED << threadVars, audioVars >>

\* uart_sink_destroy: huart = NULL; the sink stays in the registry
uart_sink_destroy(s) ==
  /\ sink[s].vtable
  /\ sink' = [ sink EXCEPT ![s].huart = FALSE ]
  /\ lev' = NoLogEvent
  /\ UNCHANGED logger
  /\ UNCHANGED << threadVars, audioVars >>

core_logger_set_min_level(min_level) ==
  /\ logger' = IF min_level < LOG_LEVEL_COUNT
               THEN [ logger EXCEPT !.min_level = min_level ] ELSE logger
  /\ lev' = NoLogEvent
  /\ UNCHANGED sink
  /\ UNCHANGED << threadVars, audioVars >>

\* the registry after core_logger_register_sink(&sink s): a full registry
\* refuses before the duplicate test is made
Registered(sinks, s) ==
  IF Len(sinks) >= LOGGER_MAX_SINKS THEN sinks
  ELSE IF s \in SeqRange(sinks) THEN sinks
  ELSE Append(sinks, s)

\* what core_logger_register_sink returns: false for a NULL sink or a full
\* registry, true otherwise (already registered, or added)
RegisterReturns(sinks, s) == ~(s = NULL \/ Len(sinks) >= LOGGER_MAX_SINKS)

core_logger_register_sink(s) ==
  /\ logger' = [ logger EXCEPT !.sinks = IF s = NULL THEN @ ELSE Registered(@, s) ]
  /\ lev' = RegistryEvent("register", s, RegisterReturns(logger.sinks, s))
  /\ UNCHANGED sink
  /\ UNCHANGED << threadVars, audioVars >>

\* the registry after core_logger_unregister_sink: the entries behind the
\* first occurrence of s move down one slot (registration never stores a
\* sink twice, so the first occurrence is the only one)
Unregistered(sinks, s) == SelectSeq(sinks, LAMBDA x : x # s)

core_logger_unregister_sink(s) ==
  /\ logger' = [ logger EXCEPT !.sinks = IF s = NULL THEN @ ELSE Unregistered(@, s) ]
  /\ lev' = RegistryEvent("unregister", s, FALSE)
  /\ UNCHANGED sink
  /\ UNCHANGED << threadVars, audioVars >>

core_logger_clear_all_sinks ==
  /\ logger' = [ logger EXCEPT !.sinks = << >> ]
  /\ lev' = RegistryEvent("clear", NULL, FALSE)
  /\ UNCHANGED sink
  /\ UNCHANGED << threadVars, audioVars >>

\* a sink that also takes the level one below its minimum
log_sink_should_log_below(sk, level) == level + 1 >= sk.min_level

\* return (level >= sink->min_level);
log_sink_should_log(sk, level) == level >= sk.min_level

\* uart_sink_log: TRUE when HAL_UART_Transmit(_DMA) is called with the
\* message (the message is never empty: it starts with the prefix)
uart_sink_log(sk, level) ==
  /\ log_sink_should_log(sk, level)
  /\ sk.huart

\* the index into log_level_string: a level of 4 or more becomes 3
ClampLevel(level) == IF level >= LOG_LEVEL_COUNT THEN LOG_LEVEL_ERROR ELSE level

\* strlen of "\n[D]", "\n[I]", "\n[W]", "\n[E]"
PrefixLen == 4

\* the contents of logger.buffer after snprintf and vsnprintf for a text of
\* len characters
FormatMessage(level, len) == [ tag |-> ClampLevel(level), len |-> PrefixLen + len ]

\* the loop over logger.sinks[0..sink_count): the transmissions made for
\* the sinks from index k on
RECURSIVE FanOut(_, _, _, _)
FanOut(sinks, k, level, message) ==
  IF k > Len(sinks) THEN << >>
  ELSE LET sk == sink[sinks[k]]
           here == IF sk.vtable /\ uart_sink_log(sk, level)
                   THEN << [ sink |-> sinks[k], message |-> message ] >>
                   ELSE << >>
       IN  here \o FanOut(sinks, k + 1, level, message)

\* core_logger_write(level, fmt, ...) whose text formats to len characters
core_logger_write(level, len) ==
  /\ lev' = [ NoLogEvent EXCEPT
              !.op = "write", !.level = level, !.len = len,
              !.out = IF level < logger.min_level THEN << >>
                      ELSE IF PrefixLen + len >= LOGGER_BUFFER_SIZE THEN << >>
                      ELSE FanOut(logger.sinks, 1, ClampLevel(level),
                                  FormatMessage(level, len)) ]
  /\ UNCHANGED << logger, sink >>
  /\ UNCHANGED << threadVars, audioVars >>

----------------------------------------------------------------------------
(* Specifications.                                                         *)
(*                                                                         *)
(* Spec       the whole life cycle of a pool of one worker: constructions  *)
(*            that fail at any point, deinit with and without waiting, a   *)
(*            later construction on the same or on another address; tasks  *)
(*            of one class.                                                *)
(* SpecSched  one running pool; tasks of every queue priority, with and    *)
(*            without a submit timeout.                                    *)
(* SpecBusy   constructions that fail at any point and a pool that is      *)
(*            never torn down; more submissions of one class than workers  *)
(*            and queue slots together.                                    *)
(* SpecIdle   one pool with or without low-power mode and the idle hook.   *)
(* SpecStarveFair one running pool, fairly scheduled, with LOW tasks and a *)
(*            HIGH function that is submitted again and again.             *)
(* SpecLog    the logger: sinks created, re-levelled, destroyed, registered *)
(*            and unregistered; writes of every level, short and too long. *)
(* SpecAudio  the recorder: starts that fail at any call, stops, transfer   *)
(*            interrupts, the two tasks; the samples are silence.          *)
(* SpecProc   one recording that is never stopped, with two sample values. *)
(* SpecConvert one processing pass over buffers filled with samples from   *)
(*            the whole int32_t range.                                     *)

LifeConfigs ==
  { c \in Configs : c.thread_count <= 1 /\ c.queue_size <= 1 /\ ~c.low_power_mode }

Next ==
  \/ \E config \in LifeConfigs \cup { NullConfig } :
       \E f \in FailPoints(config) : core_thread_init_with_config(config, f)
  \/ \E t \in ThreadId : WorkerGet(t)
  \/ \E t \in ThreadId : WorkerStart(t)
  \/ \E t \in ThreadId : WorkerFinish(t)
  \/ \E function \in 0..MaxLifeTasks, timeout_ms \in Timeouts :
       AddTaskCall(function, THREADPOOL_PRIORITY_LOW, "osPriorityNormal", timeout_ms)
  \/ AddTaskPut
  \/ \E wait_for_tasks \in BOOLEAN : DeinitCall(wait_for_tasks)
  \/ DeinitSetState
  \/ DeinitWait
  \/ DeinitSignal
  \/ DeinitFree
  \/ DeinitReturn

Spec == Init /\ [][Next]_vars

\* Spec with the scheduling the claims about termination assume: a worker
\* that can take a task, start it or return from its body eventually does,
\* and so does each step of core_thread_deinit; the polling loop of the wait
\* sees active_tasks == 0 only if it stays 0 across a poll
Fairness ==
  /\ \A t \in ThreadId :
       WF_vars(WorkerGet(t)) /\ WF_vars(WorkerStart(t)) /\ WF_vars(WorkerFinish(t))
  /\ WF_vars(AddTaskPut)
  /\ WF_vars(DeinitSetState) /\ WF_vars(DeinitWait) /\ WF_vars(DeinitSignal)
  /\ WF_vars(DeinitFree) /\ WF_vars(DeinitReturn)

SpecFair == Init /\ [][Next]_vars /\ Fairness

SchedConfigs ==
  { c \in Configs : ValidConfig(c) /\ ~c.low_power_mode }

NextSched ==
  \/ \E config \in SchedConfigs :
       ctor = 0 /\ core_thread_init_with_config(config, << "none", 1 >>)
  \/ \E t \in ThreadId : WorkerGet(t)
  \/ \E t \in ThreadId : WorkerStart(t)
  \/ \E t \in ThreadId : WorkerFinish(t)
  \/ \E function \in 0..MaxSchedTasks, queue_priority \in ThreadPoolPriority,
        timeout_ms \in Timeouts :
       AddTaskCall(function, queue_priority, "osPriorityNormal", timeout_ms)
  \/ AddTaskPut

SpecSched == Init /\ [][NextSched]_vars

BusyConfigs ==
  { c \in Configs : c.queue_size <= 1 /\ c.stack_size # 0 /\ ~c.low_power_mode }

NextBusy ==
  \/ \E config \in BusyConfigs :
       \E f \in FailPoints(config) : core_thread_init_with_config(config, f)
  \/ \E t \in ThreadId : WorkerGet(t)
  \/ \E t \in ThreadId : WorkerStart(t)
  \/ \E t \in ThreadId : WorkerFinish(t)
  \/ \E function \in 0..MaxBusyTasks, timeout_ms \in Timeouts :
       AddTaskCall(function, THREADPOOL_PRIORITY_LOW, "osPriorityNormal", timeout_ms)
  \/ AddTaskPut

SpecBusy == Init /\ [][NextBusy]_vars

IdleConfigs == { c \in Configs : ValidConfig(c) /\ c.queue_size = 1 }

NextIdle ==
  \/ \E config \in IdleConfigs :
       ctor = 0 /\ core_thread_init_with_config(config, << "none", 1 >>)
  \/ \E t \in ThreadId : WorkerGet(t)
  \/ \E t \in ThreadId : WorkerStart(t)
  \/ \E t \in ThreadId : WorkerFinish(t)
  \/ \E function \in 0..MaxIdleTasks, execution_priority \in ExecPriority :
       AddTaskCall(function, THREADPOOL_PRIORITY_NORMAL, execution_priority, 0)
  \/ AddTaskPut
  \/ \E wait_for_tasks \in BOOLEAN : DeinitCall(wait_for_tasks)
  \/ DeinitSetState
  \/ DeinitWait
  \/ DeinitSignal
  \/ DeinitFree
  \/ DeinitReturn
  \/ WaitAndSuspendCheck
  \/ WaitAndSuspendDo

SpecIdle == Init /\ [][NextIdle]_vars

\* one pool of one worker whose queue holds two tasks, torn down with and
\* without waiting
DrainConfigs ==
  { c \in Configs : ValidConfig(c) /\ c.thread_count = 1 /\ c.queue_size = 2
                    /\ ~c.low_power_mode }

NextDrain ==
  \/ \E config \in DrainConfigs :
       ctor = 0 /\ core_thread_init_with_config(config, << "none", 1 >>)
  \/ \E t \in ThreadId : WorkerGet(t)
  \/ \E t \in ThreadId : WorkerStart(t)
  \/ \E t \in ThreadId : WorkerFinish(t)
  \/ \E function \in 0..MaxDrainTasks :
       AddTaskCall(function, THREADPOOL_PRIORITY_NORMAL, "osPriorityNormal", 0)
  \/ AddTaskPut
  \/ \E wait_for_tasks \in BOOLEAN : DeinitCall(wait_for_tasks)
  \/ DeinitSetState
  \/ DeinitWait
  \/ DeinitSignal
  \/ DeinitFree
  \/ DeinitReturn

SpecDrain == Init /\ [][NextDrain]_vars

SpecDrainFair == Init /\ [][NextDrain]_vars /\ Fairness

\* one running pool of one worker and two queue slots; LOW tasks submitted
\* once each and one HIGH function submitted any number of times
StarveConfigs ==
  { c \in Configs : ValidConfig(c) /\ c.thread_count = 1 /\ c.queue_size = 2
                    /\ ~c.low_power_mode }

NextStarve ==
  \/ \E config \in StarveConfigs :
       ctor = 0 /\ core_thread_init_with_config(config, << "none", 1 >>)
  \/ \E t \in ThreadId : WorkerGet(t)
  \/ \E t \in ThreadId : WorkerStart(t)
  \/ \E t \in ThreadId : WorkerFinish(t)
  \/ \E function \in 1..MaxStarveTasks :
       AddTaskCall(function, THREADPOOL_PRIORITY_LOW, "osPriorityNormal", 0)
  \/ AddTaskCall(RecurringFunction, THREADPOOL_PRIORITY_HIGH, "osPriorityNormal", 0)
  \/ AddTaskPut

SpecStarveFair == Init /\ [][NextStarve]_vars /\ Fairness

\* minimum levels given to sinks, levels given to core_logger_set_min_level
\* (LOG_LEVEL_COUNT is refused) and text lengths: one that fits the buffer
\* and one that does not
SinkLevels == { LOG_LEVEL_DEBUG, LOG_LEVEL_WARN }

GlobalLevels == { LOG_LEVEL_DEBUG, LOG_LEVEL_INFO, LOG_LEVEL_COUNT }

TextLens == { 1, MaxTextLen }

\* the sinks used in SpecLog
LogSinks == 1..MaxLogSinks

NextLog ==
  \/ \E s \in LogSinks, min_level \in SinkLevels : uart_sink_create(s, min_level)
  \/ \E s \in LogSinks, min_level \in SinkLevels : uart_sink_set_level(s, min_level)
  \/ \E s \in LogSinks : uart_sink_destroy(s)
  \/ \E min_level \in GlobalLevels : core_logger_set_min_level(min_level)
  \/ \E s \in LogSinks \cup { NULL } : core_logger_register_sink(s)
  \/ \E s \in LogSinks \cup { NULL } : core_logger_unregister_sink(s)
  \/ core_logger_clear_all_sinks
  \/ \E level \in LogLevel, len \in TextLens : core_logger_write(level, len)

SpecLog == Init /\ [][NextLog]_vars

\* The registry alone: more sink objects than the registry has slots, none
\* of them written to.
NextRegistry ==
  \/ \E s \in SinkId \cup { NULL } : core_logger_register_sink(s)
  \/ \E s \in SinkId \cup { NULL } : core_logger_unregister_sink(s)
  \/ core_logger_clear_all_sinks

SpecRegistry == Init /\ [][NextRegistry]_vars

\* raw samples the transfers deliver in SpecAudio: silence
SilentSamples == { 0 }

NextAudio ==
  \/ \E fail \in StartFail : audio_recorder_start(fail)
  \/ audio_recorder_stop
  \/ \E l, r \in SilentSamples : audio_recorder_half_complete_callback(l, r)
  \/ \E l, r \in SilentSamples : audio_recorder_full_complete_callback(l, r)
  \/ audio_recorder_task
  \/ ProcAcquire
  \/ ProcLatch
  \/ ProcSample

SpecAudio == Init /\ [][NextAudio]_vars

\* raw samples of SpecConvert: the limits of int32_t, zero, and the values
\* around the two saturation thresholds and around a change of sign
RawSamples ==
  { INT32_MIN, INT32_MIN + 1, INT32_MAX, INT32_MAX - 1 }
    \cup { q * 256 + d : q \in { INT16_MIN - 1, INT16_MIN, -1, 0, INT16_MAX, INT16_MAX + 1 },
                         d \in { 0, 1, 255 } }

\* a recording in progress: a transfer has filled the buffers with the
\* samples l and r, the interrupt has run and audio_recorder_task has
\* released the semaphore
InitConvert ==
  /\ g_threadpool = NULL
  /\ heap = [ a \in Addr |-> FALSE ]
  /\ mem = [ a \in Addr |-> ZeroPool ]
  /\ mq = [ a \in Addr |-> NoQueue ]
  /\ thr = [ t \in ThreadId |-> FreeThread ]
  /\ app = AppIdle
  /\ sub = SubIdle
  /\ ev = NoEvent
  /\ acc = {}
  /\ idle = "idle"
  /\ suspended = FALSE
  /\ accepted = 0
  /\ ctor = 0
  /\ shutdownReq = FALSE
  /\ quiesced = FALSE
  /\ ahead = {}
  /\ \E l, r \in RawSamples, state \in { AUDIO_BUFFER_HALF_FULL, AUDIO_BUFFER_FULL } :
       /\ audio_data = [ ZeroAudioData EXCEPT
                           !.left_buffer = [ i \in BufferIndex |-> l ],
                           !.right_buffer = [ i \in BufferIndex |-> r ],
                           !.buffer_state = state ]
       /\ hw = [ left |-> TRUE, right |-> TRUE,
                 half |-> IF state = AUDIO_BUFFER_HALF_FULL THEN 1 ELSE 0 ]
  /\ is_recording = TRUE
  /\ audio_semaphore = 1
  /\ audio_queue = NewAudioQueue
  /\ proc = ProcWait
  /\ aev = NoAudioEvent
  /\ posted = 1
  /\ dropped = {}
  /\ seen = NothingSeen
  /\ delivered = 1
  /\ woken = [ state |-> audio_data.buffer_state, id |-> 1 ]
  /\ LoggerInit

NextConvert ==
  \/ ProcAcquire
  \/ ProcLatch
  \/ ProcSample

SpecConvert == InitConvert /\ [][NextConvert]_vars

\* raw samples the transfers deliver in SpecProc
ToneSamples == { 256, -512 }

\* one recording that is never stopped
NextProc ==
  \/ audio_recorder_start("none")
  \/ \E l, r \in ToneSamples : audio_recorder_half_complete_callback(l, r)
  \/ \E l, r \in ToneSamples : audio_recorder_full_complete_callback(l, r)
  \/ audio_recorder_task
  \/ ProcAcquire
  \/ ProcLatch
  \/ ProcSample

SpecProc == Init /\ [][NextProc]_vars


----------------------------------------------------------------------------
(* Properties *)

\* C1 (as stated): of two accepted tasks of the same queue_priority the one
\* submitted first begins executing first, for every thread_count: when a
\* worker starts a body, no task of the same class submitted earlier is still
\* waiting to start, in the queue or in the hands of another worker.
C1_StartOrder ==
  [][\A t \in ThreadId :
       (thr[t].st = "got" /\ thr'[t].st = "run") =>
         /\ \A u \in ThreadId \ {t} :
              (thr[u].st = "got" /\ thr[u].pool = thr[t].pool
                 /\ thr[u].task.priority = thr[t].task.priority)
                => thr[u].task.function > thr[t].task.function
         /\ LET q == QueueAt(mem[thr[t].pool].task_queue)
            IN  \A k \in 1..Len(q.msgs) :
                  (~q.msgs[k].task.is_shutdown_signal
                     /\ q.msgs[k].task.priority = thr[t].task.priority)
                    => q.msgs[k].task.function > thr[t].task.function]_vars

\* C1 (amended): tasks of the same queue_priority leave the queue in the order
\* of their submission: the queue keeps them in submission order, and a task a
\* worker has dequeued was submitted before every task of its class that is
\* still queued.
C1_DequeueOrder ==
  /\ \A a \in Addr :
       \A i, j \in 1..Len(mq[a].msgs) :
         (i < j /\ ~mq[a].msgs[i].task.is_shutdown_signal
                /\ ~mq[a].msgs[j].task.is_shutdown_signal
                /\ mq[a].msgs[i].task.priority = mq[a].msgs[j].task.priority)
           => mq[a].msgs[i].task.function < mq[a].msgs[j].task.function
  /\ \A t \in ThreadId :
       thr[t].st \in { "got", "run" } =>
         LET q == QueueAt(mem[thr[t].pool].task_queue)
         IN  \A k \in 1..Len(q.msgs) :
               (~q.msgs[k].task.is_shutdown_signal
                  /\ q.msgs[k].task.priority = thr[t].task.priority)
                 => q.msgs[k].task.function > thr[t].task.function

\* C1 witness: two tasks of one class were queued together and a worker has
\* dequeued the first while the second is still queued.
C1_Witness ==
  \E t \in ThreadId :
    /\ thr[t].st = "got"
    /\ g_threadpool # NULL
    /\ thr[t].pool = g_threadpool
    /\ LET q == QueueAt(CurrentQueueHandle)
       IN  \E k \in 1..Len(q.msgs) :
             /\ q.msgs[k].task.priority = thr[t].task.priority
             /\ q.msgs[k].task.function = thr[t].task.function + 1

\* C2: a dequeue hands the worker a task of the highest queue_priority class
\* present in the queue, and a worker that runs a body keeps that task until
\* the body returns, whatever is submitted meanwhile.
C2_HighestClassFirst ==
  [][\A t \in ThreadId :
       /\ (thr[t].st = "wait" /\ thr'[t].st = "got") =>
            LET q == QueueAt(mem[thr[t].pool].task_queue)
            IN  /\ q.msgs # << >>
                /\ thr'[t].task = Head(q.msgs).task
                /\ \A k \in 1..Len(q.msgs) :
                     ~q.msgs[k].task.is_shutdown_signal
                       => q.msgs[k].task.priority <= thr'[t].task.priority
       /\ thr[t].st = "run" =>
            \/ thr'[t].st = "run" /\ thr'[t].task = thr[t].task
            \/ thr'[t].st = "wait" /\ ev'.op = "finish"]_vars

\* C2 witness: a worker has dequeued a HIGH task although a LOW task submitted
\* before it is still queued, while another worker keeps running a LOW body.
C2_Witness ==
  \E t, u \in ThreadId :
    /\ thr[t].st = "got"
    /\ thr[t].task.priority = THREADPOOL_PRIORITY_HIGH
    /\ thr[u].st = "run"
    /\ thr[u].task.priority = THREADPOOL_PRIORITY_LOW
    /\ LET q == QueueAt(CurrentQueueHandle)
       IN  \E k \in 1..Len(q.msgs) :
             /\ q.msgs[k].task.priority = THREADPOOL_PRIORITY_LOW
             /\ q.msgs[k].task.function < thr[t].task.function

\* C3: the number of running bodies a pool reports is never below 0 nor above
\* its thread_count: the counter of the installed pool and both monitoring
\* calls stay in 0..thread_count, and the calls return 0 when no pool exists.
C3_ActiveInRange ==
  /\ g_threadpool = NULL =>
       /\ core_thread_get_active_tasks_count = 0
       /\ core_thread_get_active_tasks_count_wo_mutex = 0
  /\ (g_threadpool # NULL /\ heap[g_threadpool]) =>
       /\ U32LessEq(mem[g_threadpool].active_tasks, mem[g_threadpool].thread_count)
       /\ U32LessEq(core_thread_get_active_tasks_count, mem[g_threadpool].thread_count)
       /\ U32LessEq(core_thread_get_active_tasks_count_wo_mutex,
                    mem[g_threadpool].thread_count)

\* C4 (as stated): every submit of a function issued after deinit was called,
\* whether deinit is still in progress or has returned, returns Shutdown.
C4_ShutdownAfterDeinit ==
  (ev.op = "add_task" /\ ev.pre /\ ~ev.flag) => ev.ret = "THREADPOOL_ERROR_SHUTDOWN"

\* C4 (amended): a submit of a function that finds the installed pool record
\* in a state other than RUNNING returns Shutdown, and a submit issued after
\* deinit has returned, before the next successful construction, returns
\* NotInitialized; neither enqueues anything, so the function is never run.
C4_RejectedOnceShutDown ==
  [][(sub.pc = "idle" /\ (sub'.pc = "put" \/ ev'.op = "add_task")) =>
       /\ (g_threadpool # NULL /\ heap[g_threadpool]
             /\ mem[g_threadpool].state # "THREADPOOL_RUNNING"
             /\ ~(ev'.op = "add_task" /\ ev'.flag))
            => /\ ev'.op = "add_task"
               /\ ev'.ret = "THREADPOOL_ERROR_SHUTDOWN"
               /\ sub'.pc = "idle"
               /\ mq' = mq /\ accepted' = accepted
       /\ (g_threadpool = NULL /\ shutdownReq)
            => /\ ev'.op = "add_task"
               /\ ev'.ret = "THREADPOOL_ERROR_NOT_INITIALIZED"
               /\ sub'.pc = "idle"
               /\ mq' = mq /\ accepted' = accepted]_vars

\* C4 witness: deinit is in progress, the state is SHUTTING_DOWN and a submit
\* issued after the call of deinit has just returned Shutdown.
C4_Witness ==
  /\ ev.op = "add_task"
  /\ ev.pre
  /\ ev.ret = "THREADPOOL_ERROR_SHUTDOWN"
  /\ app.pc \in { "d_wait", "d_signal" }
  /\ core_thread_get_state = "THREADPOOL_SHUTTING_DOWN"

\* C5: after deinit(wait_for_tasks = true) has returned, active_count() is 0
\* and no task body is executing, not even one whose task a worker had
\* dequeued before the wait ended.
C5_QuiescentAfterWait ==
  quiesced =>
    /\ core_thread_get_active_tasks_count = 0
    /\ \A t \in ThreadId : thr[t].st # "run"

\* C6: a submit with timeout 0 that reaches the put while every worker of the
\* pool runs a body and the queue holds queue_size tasks returns QueueFull in
\* that step, and neither the queue nor the pool record changes.
C6_QueueFullNoBlock ==
  [][(/\ sub.pc = "put"
      /\ sub' # sub
      /\ sub.timeout_ms = 0
      /\ g_threadpool # NULL
      /\ heap[g_threadpool]
      /\ Len(QueueAt(CurrentQueueHandle).msgs) = mem[g_threadpool].queue_size
      /\ \A k \in 1..Len(mem[g_threadpool].worker_threads) :
           thr[mem[g_threadpool].worker_threads[k]].st = "run")
       => /\ sub'.pc = "idle"
          /\ ev'.op = "add_task"
          /\ ev'.ret = "THREADPOOL_ERROR_QUEUE_FULL"
          /\ mq' = mq
          /\ mem' = mem
          /\ accepted' = accepted]_vars

\* C6 witness: thread_count = 2, queue_size = 1, both workers run a body, the
\* queue holds the one LOW task submitted after them, and a further LOW
\* submit with timeout 0 has just returned QueueFull.
C6_Witness ==
  /\ g_threadpool # NULL
  /\ mem[g_threadpool].thread_count = 2
  /\ mem[g_threadpool].queue_size = 1
  /\ \A k \in 1..Len(mem[g_threadpool].worker_threads) :
       thr[mem[g_threadpool].worker_threads[k]].st = "run"
  /\ Len(QueueAt(CurrentQueueHandle).msgs) = 1
  /\ Head(QueueAt(CurrentQueueHandle).msgs).task.priority = THREADPOOL_PRIORITY_LOW
  /\ accepted = 3
  /\ ev.op = "add_task"
  /\ ev.ret = "THREADPOOL_ERROR_QUEUE_FULL"

\* C7: submit returns NotInitialized when no pool exists and InvalidArgument
\* for a NULL function on an existing pool; every return other than Success
\* leaves the queues and the pool records unchanged; Success is returned
\* exactly when the task was placed on the queue, the pool record unchanged.
C7_SubmitResult ==
  [][/\ (sub.pc = "idle" /\ ev'.op = "add_task") =>
          /\ g_threadpool = NULL => ev'.ret = "THREADPOOL_ERROR_NOT_INITIALIZED"
          /\ (g_threadpool # NULL /\ ev'.flag) => ev'.ret = "THREADPOOL_ERROR_INVALID_ARG"
          /\ ev'.ret # "THREADPOOL_SUCCESS"
     /\ (sub.pc = "idle" /\ sub'.pc = "put") =>
          /\ g_threadpool # NULL
          /\ sub'.function # NULL
          /\ poolVars' = poolVars
     /\ (ev'.op = "add_task" /\ ev'.ret # "THREADPOOL_SUCCESS") =>
          /\ poolVars' = poolVars
          /\ accepted' = accepted
     /\ (ev'.op = "add_task" /\ mq' # mq) => ev'.ret = "THREADPOOL_SUCCESS"
     /\ (ev'.op = "add_task" /\ ev'.ret = "THREADPOOL_SUCCESS") =>
          /\ << g_threadpool, heap, mem >>' = << g_threadpool, heap, mem >>
          /\ \E h \in Addr :
               /\ \A a \in Addr \ {h} : mq'[a] = mq[a]
               /\ Len(mq'[h].msgs) = Len(mq[h].msgs) + 1
               /\ \E k \in 1..Len(mq'[h].msgs) :
                    mq'[h].msgs[k].task.function = sub.function]_vars

\* C7 witness: a submit of a NULL function on a running pool has just
\* returned InvalidArgument.
C7_Witness ==
  /\ ev.op = "add_task"
  /\ ev.flag
  /\ ev.ret = "THREADPOOL_ERROR_INVALID_ARG"
  /\ core_thread_get_state = "THREADPOOL_RUNNING"

\* C8: the state of a pool record and the state core_thread_get_state reports
\* only move RUNNING -> SHUTTING_DOWN -> STOPPED between two constructions,
\* and RUNNING is reported again only by a construction that succeeded.
C8_StateMonotonic ==
  [][LET rank(st) == CASE st = "THREADPOOL_RUNNING"       -> 0
                       [] st = "THREADPOOL_SHUTTING_DOWN" -> 1
                       [] st = "THREADPOOL_STOPPED"       -> 2
     IN  /\ ctor' = ctor =>
              /\ rank(core_thread_get_state') >= rank(core_thread_get_state)
              /\ \A a \in Addr : rank(mem'[a].state) >= rank(mem[a].state)
         /\ (core_thread_get_state # "THREADPOOL_RUNNING"
               /\ core_thread_get_state' = "THREADPOOL_RUNNING")
              => (ctor' = ctor + 1 /\ ev'.op = "init" /\ ev'.ret = "true")]_vars

\* C8 witness: an earlier instance went through deinit and is STOPPED, and a
\* fresh construction at another address reports RUNNING.
C8_Witness ==
  /\ core_thread_get_state = "THREADPOOL_RUNNING"
  /\ ctor >= 2
  /\ \E a \in Addr \ { g_threadpool } :
       mem[a].state = "THREADPOOL_STOPPED" /\ ~heap[a]

\* C9: when a construction fails, no pool is installed and everything created
\* so far is released: no record stays allocated, no queue stays alive and no
\* worker thread started by that construction is left alive.
C9_FailureReleasesAll ==
  [][(ev'.op = "init" /\ ev'.ret = "false" /\ ev' # ev) =>
       /\ g_threadpool' = NULL
       /\ \A a \in Addr : ~heap'[a] /\ ~mq'[a].live
       /\ \A t \in ThreadId : thr'[t].st # "free" => thr'[t] = thr[t]]_vars

\* C10: a completing task resumes the main thread exactly when low_power_mode
\* is set, the decrement brought the counter to zero and the state is RUNNING;
\* nothing else resumes the main thread.
C10_ResumeOnIdle ==
  [][/\ \A t \in ThreadId :
          (thr[t].st = "run" /\ thr'[t].st = "wait") =>
            /\ ev'.op = "finish"
            /\ ev'.flag <=> /\ mem[thr[t].pool].low_power_mode
                            /\ mem'[thr[t].pool].active_tasks = 0
                            /\ mem[thr[t].pool].state = "THREADPOOL_RUNNING"
            /\ ev'.flag => ~suspended'
            /\ ~ev'.flag => suspended' = suspended
     /\ (suspended /\ ~suspended') => (ev'.op = "finish" /\ ev'.flag)]_vars

\* C10 witness: the main thread was suspended while a task ran, and the
\* completion of the last running task has just resumed it.
C10_Witness ==
  /\ ev.op = "finish"
  /\ ev.flag
  /\ ev.pre
  /\ ~suspended
  /\ core_thread_get_state = "THREADPOOL_RUNNING"
  /\ core_thread_is_idle

\* C11: the main thread does not stay suspended once the counter is zero:
\* whenever it is suspended, the pool still has a task whose completion will
\* resume it (a counted task, a task a worker has dequeued, a queued task or
\* a submit under way).
C11_NoLostWakeup ==
  (suspended /\ g_threadpool # NULL /\ heap[g_threadpool]) =>
    \/ mem[g_threadpool].active_tasks # 0
    \/ \E t \in ThreadId : thr[t].pool = g_threadpool /\ thr[t].st \in { "got", "run" }
    \/ QueueAt(CurrentQueueHandle).msgs # << >>
    \/ sub.pc = "put"

\* C20: when core_thread_deinit returns, every worker of the pool it tore
\* down has dequeued a shutdown signal and left its loop: no thread that was
\* started on that pool is still alive.
C20_WorkersExitedAtReturn ==
  [][(g_threadpool # NULL /\ g_threadpool' = NULL) =>
       \A t \in ThreadId : thr'[t].pool = g_threadpool => thr'[t].st = "free"]_vars

\* C12: every playback sample the processor stores is the raw 32-bit sample
\* shifted right by 8 bits with its sign kept and then clamped to
\* [-32768, 32767]: the left sample at 2 * i, the right one at 2 * i + 1. The
\* raw sample 0x7FFFFFFF gives 32767 and 0x80000000 gives -32768; no result
\* wraps around.
C12_Conversion ==
  [][aev'.op \in { "sample", "pass" } =>
       \A c \in { 0, 1 } :
         LET v == IF c = 0 THEN audio_data.left_buffer[proc.i]
                  ELSE audio_data.right_buffer[proc.i]
             out == audio_data'.playback_buffer[2 * proc.i + c]
             shifted == (v - (v % 256)) \div 256
             low == IF shifted < 32767 THEN shifted ELSE 32767
             clamped == IF low > -32768 THEN low ELSE -32768
         IN  /\ out = clamped
             /\ v = INT32_MAX => out = 32767
             /\ v = INT32_MIN => out = -32768]_vars

C12_Witness ==
  /\ aev.op \in { "sample", "pass" }
  /\ audio_data.left_buffer[0] = INT32_MAX
  /\ audio_data.right_buffer[0] = INT32_MIN
  /\ audio_data.playback_buffer[0] = 32767
  /\ audio_data.playback_buffer[1] = -32768

\* C13: when a processing pass ends, for every index i of the half it
\* processed (the second half when buffer_state was FULL at the read, the
\* first half otherwise) the playback buffer holds at 2 * i the converted
\* left sample and at 2 * i + 1 the converted right sample the pass read at
\* i; a turn of the loop writes no other entry, the pass reads no index
\* outside its half, and every index written is inside the playback buffer.
C13_PassResult ==
  [][/\ aev'.op = "latch" =>
          /\ proc'.start_index = IF audio_data.buffer_state = AUDIO_BUFFER_FULL
                                 THEN AUDIO_BUFFER_SIZE \div 2 ELSE 0
          /\ proc'.end_index = IF audio_data.buffer_state = AUDIO_BUFFER_FULL
                               THEN AUDIO_BUFFER_SIZE ELSE AUDIO_BUFFER_SIZE \div 2
     /\ aev'.op \in { "sample", "pass" } =>
          /\ proc.i \in proc.start_index..(proc.end_index - 1)
          /\ 2 * proc.i + 1 < 2 * AUDIO_BUFFER_SIZE
          /\ seen'[proc.i] = << audio_data.left_buffer[proc.i],
                                audio_data.right_buffer[proc.i] >>
          /\ \A k \in PlaybackIndex :
               k \notin { 2 * proc.i, 2 * proc.i + 1 } =>
                 audio_data'.playback_buffer[k] = audio_data.playback_buffer[k]
     /\ aev'.op = "pass" =>
          \A i \in BufferIndex :
            IF i \in proc.start_index..(proc.end_index - 1)
            THEN /\ seen'[i] # << >>
                 /\ audio_data'.playback_buffer[2 * i] = ConvertSample(seen'[i][1])
                 /\ audio_data'.playback_buffer[2 * i + 1] = ConvertSample(seen'[i][2])
            ELSE seen'[i] = << >>]_vars

\* a pass over the second half has ended with a tone in both channels
C13_Witness ==
  /\ aev.op = "pass"
  /\ proc.start_index = AUDIO_BUFFER_SIZE \div 2
  /\ \A i \in HalfIndices(1) :
       /\ seen[i] # << >>
       /\ seen[i][1] # seen[i][2]
       /\ audio_data.playback_buffer[2 * i] = ConvertSample(seen[i][1])
       /\ audio_data.playback_buffer[2 * i + 1] = ConvertSample(seen[i][2])
       /\ audio_data.playback_buffer[2 * i] # audio_data.playback_buffer[2 * i + 1]

\* C14: a start call made while is_recording is true makes no hardware call
\* and leaves is_recording, buffer_state, the buffers and the channels as
\* they are; a stop call made while is_recording is false makes no hardware
\* call and leaves the whole pipeline state as it is.
C14_NoOpCalls ==
  [][/\ (aev'.op = "start" /\ is_recording) =>
          /\ aev'.calls = << >>
          /\ UNCHANGED << is_recording, audio_data, hw >>
     /\ (aev'.op = "stop" /\ ~is_recording) =>
          /\ aev'.calls = << >>
          /\ UNCHANGED << is_recording, audio_data, hw, audio_semaphore,
                          audio_queue, proc >>]_vars

\* start has returned at once during a recording with both channels running
C14_Witness ==
  /\ aev = [ op |-> "start", calls |-> << >>, ret |-> "skip" ]
  /\ is_recording
  /\ hw.left /\ hw.right
  /\ audio_data.buffer_state # AUDIO_BUFFER_EMPTY

\* C15 as stated: whenever a stop call returns, from any prior state, neither
\* channel is running.
C15_StopHaltsBoth ==
  [][aev'.op = "stop" => (~hw'.left /\ ~hw'.right)]_vars

\* C15, amended: a stop call made while is_recording is true stops both
\* channels and clears is_recording; a stop call made while is_recording is
\* false leaves the channels as they are, so a channel left running by a
\* failed start keeps running.
C15_StopHaltsWhenRecording ==
  [][aev'.op = "stop" =>
       IF is_recording
       THEN /\ aev'.calls = << "stop_left", "stop_right" >>
            /\ ~hw'.left /\ ~hw'.right /\ ~is_recording'
       ELSE /\ aev'.calls = << >>
            /\ hw' = hw /\ ~is_recording']_vars

\* stop has returned after a recording in which transfers completed
C15_Witness ==
  /\ aev.op = "stop"
  /\ aev.ret = "stopped"
  /\ ~hw.left /\ ~hw.right /\ ~is_recording
  /\ posted > 0

\* C16: a start call made while not recording makes the four hardware calls
\* in order and stops at the first that fails; after a failure is_recording
\* is false, no call follows the failing one, no stop call is made and a
\* channel already running keeps running; is_recording becomes true exactly
\* when the two configurations and the two transfer starts all succeeded.
C16_StartFailure ==
  [][(aev'.op = "start" /\ ~is_recording) =>
       LET calls == aev'.calls
           n == Len(calls)
       IN  /\ n \in 1..Len(StartCalls)
           /\ calls = SubSeq(StartCalls, 1, n)
           /\ is_recording' <=> (aev'.ret = "started")
           /\ is_recording' => (n = Len(StartCalls) /\ hw'.left /\ hw'.right)
           /\ aev'.ret # "started" =>
                /\ calls[n] = aev'.ret
                /\ hw.left => hw'.left
                /\ hw.right => hw'.right
                /\ hw'.left = hw.left
                /\ hw'.right = (hw.right \/ aev'.ret = "start_left")]_vars

\* the start of the left transfer has failed after the right one was started
C16_Witness ==
  /\ aev.op = "start"
  /\ aev.ret = "start_left"
  /\ aev.calls = StartCalls
  /\ hw.right /\ ~hw.left
  /\ ~is_recording

\* C17 as stated: buffer_state is HALF_FULL after a half-transfer interrupt
\* and FULL after a full-transfer interrupt, the two alternating; it is
\* EMPTY after init and after every stop call that ends a recording, and no
\* interrupt-free step of a recording makes it EMPTY.
C17_EmptyAtInitAndStop ==
  [][/\ aev'.op = "irq" =>
          /\ audio_data'.buffer_state =
               IF hw.half = 0 THEN AUDIO_BUFFER_HALF_FULL ELSE AUDIO_BUFFER_FULL
          /\ hw'.half = 1 - hw.half
     /\ posted' = 0 => audio_data'.buffer_state = AUDIO_BUFFER_EMPTY
     /\ (aev'.op = "stop" /\ is_recording) =>
          audio_data'.buffer_state = AUDIO_BUFFER_EMPTY
     /\ (aev'.op \notin { "irq", "stop" } /\ audio_data.buffer_state # AUDIO_BUFFER_EMPTY) =>
          audio_data'.buffer_state # AUDIO_BUFFER_EMPTY]_vars

\* C17, amended: buffer_state is EMPTY from init until the first transfer
\* interrupt; a half-transfer interrupt sets HALF_FULL and a full-transfer
\* interrupt sets FULL, the two alternating while the transfers run; no
\* other step writes it, so after a stop it keeps the value of the last
\* interrupt and it is never EMPTY again.
C17_StateKeptAtStop ==
  [][/\ aev'.op = "irq" =>
          /\ audio_data'.buffer_state =
               IF hw.half = 0 THEN AUDIO_BUFFER_HALF_FULL ELSE AUDIO_BUFFER_FULL
          /\ hw'.half = 1 - hw.half
     /\ aev'.op # "irq" => audio_data'.buffer_state = audio_data.buffer_state
     /\ (posted' = 0) <=> (audio_data'.buffer_state = AUDIO_BUFFER_EMPTY)]_vars

\* stop has ended a recording whose last interrupt was a full transfer
C17_Witness ==
  /\ aev.op = "stop"
  /\ aev.ret = "stopped"
  /\ posted > 1
  /\ audio_data.buffer_state = AUDIO_BUFFER_FULL

\* C18: audio_recorder_task dequeues the events in the order the interrupts
\* posted them and each at most once: the event it dequeues is later than
\* the one it dequeued before, it was posted and not dropped, and every
\* event between the two was dropped because the queue was full. The queue
\* holds exactly the events posted, not dropped and not yet dequeued.
C18_Handoff ==
  [][/\ aev'.op = "notify" =>
          /\ delivered' \in (delivered + 1)..posted
          /\ delivered' \notin dropped
          /\ \A k \in (delivered + 1)..(delivered' - 1) : k \in dropped
     /\ aev'.op # "notify" => delivered' = delivered
     /\ LET ids == [ k \in 1..Len(audio_queue'.msgs) |-> audio_queue'.msgs[k].task.id ]
        IN  /\ \A j, k \in 1..Len(ids) : j < k => ids[j] < ids[k]
            /\ { ids[k] : k \in 1..Len(ids) } =
                 { k \in (delivered' + 1)..posted' : k \notin dropped' }
            /\ Len(ids) <= AUDIO_QUEUE_SIZE]_vars

\* an event was dropped on a full queue and a later one has been delivered
C18_Witness ==
  /\ aev.op = "notify"
  /\ \E k \in dropped : k < delivered

\* C19 as stated: whenever the processor reads the raw samples at an index,
\* no running transfer is filling the half that index lies in.
C19_ReadsOtherHalf ==
  [][aev'.op \in { "sample", "pass" } =>
       ~((hw.left \/ hw.right) /\ hw.half = HalfOf(proc.i))]_vars

\* C21: a worker dequeues a shutdown-tagged task only when every ordinary
\* task that was in the queue when that shutdown task was put has been
\* dequeued.
C21_ShutdownAfterDrain ==
  [][\A t \in ThreadId :
       (thr[t].st = "wait" /\ thr'[t].st = "free") =>
         OrdinaryIn(mq'[mem[thr[t].pool].task_queue].msgs) \cap ahead' = {}]_vars

\* C22: with workers scheduled fairly and every task body returning, a call
\* of core_thread_deinit, with or without waiting for the tasks, eventually
\* returns.
C22_DeinitReturns ==
  (app.pc # "idle") ~> (app.pc = "idle")


----------------------------------------------------------------------------
\* C24: every read or write of a published pool's state is made while
\* state_mutex is held, and every read or write of its active_tasks while
\* active_tasks_mutex is held.
C24_LockDiscipline ==
  \A a \in acc :
    a.published =>
      /\ (a.field = "state") => ("state_mutex" \in a.held)
      /\ (a.field = "active_tasks") => ("active_tasks_mutex" \in a.held)

\* the workers created for the pool at address a that have incremented
\* active_tasks for their current task and not yet decremented it
Counted(a) ==
  { t \in ThreadId :
      /\ \E k \in 1..Len(mem[a].worker_threads) : mem[a].worker_threads[k] = t
      /\ thr[t].st = "run"
      /\ thr[t].pool = a }

\* C25: the active_tasks counter of the current pool always equals the
\* number of workers that have incremented it for their current task and
\* not yet decremented it.
C25_ActiveCountExact ==
  g_threadpool # NULL =>
    mem[g_threadpool].active_tasks = Cardinality(Counted(g_threadpool))

\* C25 for the shutdown signal: dequeuing a shutdown-tagged task leaves
\* active_tasks of every record as it was.
C25_ShutdownKeepsCount ==
  [][\A t \in ThreadId :
       (thr[t].st = "wait" /\ thr'[t].st = "free") => mem' = mem]_vars

\* C26: a worker waiting on the task queue (or holding a task it has not
\* started) has the default priority it had when its loop started; a worker
\* inside a task body has that task's execution_priority.
C26_WorkerPriority ==
  \A t \in ThreadId :
    /\ thr[t].st \in { "wait", "got" } => thr[t].priority = thr[t].default_priority
    /\ thr[t].st = "run" => thr[t].priority = thr[t].task.execution_priority

\* a worker back on the queue at its default priority while another runs a
\* body at an execution priority different from the default
C26_Witness ==
  \E t, u \in ThreadId :
    /\ thr[t].st = "run"
    /\ thr[t].task.execution_priority # thr[t].default_priority
    /\ thr[t].priority = thr[t].task.execution_priority
    /\ thr[u].st = "wait"
    /\ ev.op = "finish"

\* C27: every turn of the notifier task that dequeues a half-transfer or
\* full-transfer event raises the available count of the semaphore by
\* exactly one.
C27_OneUnitPerEvent ==
  [][(aev'.op = "notify" /\ delivered' # delivered) =>
       audio_semaphore' = audio_semaphore + 1]_vars

\* C28: when the processor task acquires a unit while is_recording is
\* false, the unit is consumed, the raw buffers, the output buffer and
\* buffer_state are unchanged, and the task waits on the semaphore again.
C28_DiscardWhenStopped ==
  [][(aev'.op = "acquire" /\ proc.pc = "acquire" /\ ~is_recording) =>
       /\ audio_semaphore' = audio_semaphore - 1
       /\ audio_data' = audio_data
       /\ proc' = proc
       /\ proc'.pc = "acquire"]_vars

\* a unit released for an event of a recording that has since been stopped
\* was acquired and discarded
C28_Witness ==
  /\ aev.op = "acquire"
  /\ aev.ret = "discard"
  /\ ~is_recording
  /\ delivered > 0
  /\ proc.pc = "acquire"

\* C29: the processor, woken by the unit released for one transfer event,
\* can find buffer_state advanced by a later interrupt and run its pass
\* over the other half (C29_Witness is such a state); a pass covers a half
\* other than the one of the event that released its unit only when a
\* later interrupt has been taken since that event.
C29_WrongHalfOnlyAfterLaterIrq ==
  [][(aev'.op = "latch" /\ proc.pc = "latch"
        /\ (proc'.start_index = 0) # (woken.state = AUDIO_BUFFER_HALF_FULL)) =>
       posted > woken.id]_vars

\* the processor has just chosen the half other than the one of the event
\* whose unit woke it, a later interrupt having advanced buffer_state
C29_Witness ==
  /\ aev.op = "latch"
  /\ proc.pc = "loop"
  /\ woken.state \in { AUDIO_BUFFER_HALF_FULL, AUDIO_BUFFER_FULL }
  /\ (proc.start_index = 0) # (woken.state = AUDIO_BUFFER_HALF_FULL)
  /\ aev.ret # woken.state
  /\ posted > woken.id

\* C30: a transfer callback sets buffer_state to its own tag and makes one
\* put with timeout 0, which returns at once with osOK or osErrorResource;
\* the queue never holds more than AUDIO_QUEUE_SIZE events; on a full queue
\* the event is dropped, the queue is unchanged and buffer_state is still
\* updated; otherwise the event goes to the back of the queue.
C30_CallbackPost ==
  [][aev'.op = "irq" =>
       LET tag  == IF hw.half = 0 THEN AUDIO_BUFFER_HALF_FULL ELSE AUDIO_BUFFER_FULL
           e    == [ task |-> [ state |-> tag, id |-> posted' ], prio |-> 0 ]
           full == Len(audio_queue.msgs) = AUDIO_QUEUE_SIZE
       IN  /\ audio_data'.buffer_state = tag
           /\ aev'.ret = IF full THEN "osErrorResource" ELSE "osOK"
           /\ audio_queue'.msgs = IF full THEN audio_queue.msgs
                                  ELSE Append(audio_queue.msgs, e)
           /\ Len(audio_queue'.msgs) <= AUDIO_QUEUE_SIZE
           /\ audio_queue'.cap = AUDIO_QUEUE_SIZE]_vars

\* a callback has just found the queue full: its event was dropped and
\* buffer_state carries its tag, which the event at the back of the queue
\* does not
C30_Witness ==
  /\ aev.op = "irq"
  /\ aev.ret = "osErrorResource"
  /\ posted \in dropped
  /\ Len(audio_queue.msgs) = AUDIO_QUEUE_SIZE
  /\ audio_data.buffer_state # audio_queue.msgs[Len(audio_queue.msgs)].task.state

\* the transmissions of the last write, as the sinks they went to
OutSinks == [ k \in 1..Len(lev.out) |-> lev.out[k].sink ]

\* C23 as stated: a write of level L reaches, in registration order, exactly
\* the registered sinks whose min_level is at most L, and no sink when L is
\* below the global minimum level.
C23_FanOutAsStated ==
  lev.op = "write" =>
    OutSinks = IF lev.level < logger.min_level THEN << >>
               ELSE SelectSeq(logger.sinks, LAMBDA s : sink[s].min_level <= lev.level)

\* C23: a write of level L whose formatted message fits the buffer makes one
\* transmission of that message, in registration order, for exactly the
\* registered sinks that are initialised, hold a UART handle and have
\* min_level at most L; it makes none when L is below the global minimum
\* level or the message does not fit.  Whether a sink receives depends on
\* the logger and on that sink's own fields only.
C23_FanOut ==
  lev.op = "write" =>
    /\ OutSinks =
         IF lev.level < logger.min_level
            \/ PrefixLen + lev.len >= LOGGER_BUFFER_SIZE
         THEN << >>
         ELSE SelectSeq(logger.sinks,
                        LAMBDA s : /\ sink[s].vtable
                                   /\ sink[s].huart
                                   /\ sink[s].min_level <= lev.level)
    /\ \A k \in 1..Len(lev.out) :
         lev.out[k].message = [ tag |-> lev.level, len |-> PrefixLen + lev.len ]
    /\ \A j, k \in 1..Len(lev.out) : j # k => lev.out[j].sink # lev.out[k].sink

\* two working sinks are registered and the write reached only the second:
\* the first was filtered by its own min_level
C23_Witness ==
  /\ lev.op = "write"
  /\ Len(logger.sinks) = 2
  /\ \A k \in 1..2 : sink[logger.sinks[k]].vtable /\ sink[logger.sinks[k]].huart
  /\ sink[logger.sinks[1]].min_level > lev.level
  /\ OutSinks = << logger.sinks[2] >>

\* C31: while is_recording is false no step changes buffer_state, adds an
\* event to the event queue or modifies the playback buffer.
C31_InertWhenStopped ==
  [][~is_recording =>
       /\ audio_data'.buffer_state = audio_data.buffer_state
       /\ Len(audio_queue'.msgs) <= Len(audio_queue.msgs)
       /\ audio_data'.playback_buffer = audio_data.playback_buffer]_vars

\* C32: core_thread_init_with_config with a non-NULL config on an installed
\* pool returns true, and with a NULL config returns false; in both cases
\* the pool pointer, every pool record, every queue and every worker are
\* left as they were.
C32_InitOnExistingPool ==
  [][(ev'.op = "init" /\ (ev'.flag \/ g_threadpool # NULL)) =>
       /\ ev'.ret = IF ev'.flag THEN "false" ELSE "true"
       /\ << g_threadpool, heap, mem, mq, thr >>' = << g_threadpool, heap, mem, mq, thr >>]_vars

\* the call has just returned true on an installed pool that has a task in
\* its queue and a worker inside a body
C32_Witness ==
  /\ ev.op = "init"
  /\ ev.pre
  /\ ev.ret = "true"
  /\ g_threadpool # NULL
  /\ mq[g_threadpool].msgs # << >>
  /\ mem[g_threadpool].active_tasks > 0

\* the copies of the task numbered f: messages in a queue and tasks in the
\* hands of a worker
QueueCopies(f) ==
  { << a, k >> \in Addr \X (1..MaxQueueSize) :
      k <= Len(mq[a].msgs) /\ mq[a].msgs[k].task.function = f }

WorkerCopies(f) ==
  { t \in ThreadId : thr[t].st \in { "got", "run" } /\ thr[t].task.function = f }

Copies(f) == Cardinality(QueueCopies(f)) + Cardinality(WorkerCopies(f))

\* the task numbered f waits in a queue
Queued(f) == QueueCopies(f) # {}

\* a worker is inside the body of the task numbered f
Started(f) == \E t \in ThreadId : thr[t].st = "run" /\ thr[t].task.function = f

\* the task numbered f waits behind a message of a higher priority
Overtaken(f) ==
  \E a \in Addr : \E j, k \in 1..Len(mq[a].msgs) :
    mq[a].msgs[k].task.function = f /\ mq[a].msgs[j].prio > mq[a].msgs[k].prio

C34_IdleMeansNoneWaiting ==
  (/\ g_threadpool # NULL
   /\ heap[g_threadpool]
   /\ mem[g_threadpool].state = "THREADPOOL_RUNNING"
   /\ accepted > 0
   /\ app.pc = "idle"
   /\ sub.pc = "idle"
   /\ core_thread_is_idle) =>
    /\ OrdinaryIn(QueueAt(CurrentQueueHandle).msgs) = {}
    /\ \A t \in ThreadId : thr[t].pool = g_threadpool => thr[t].st # "got"

C36_NoPutOnceShuttingDown ==
  [][\A p \in Addr :
       (/\ mem[p].task_queue # NULL
        /\ Len(mq'[mem[p].task_queue].msgs) > Len(mq[mem[p].task_queue].msgs)
        /\ ev'.op = "add_task") =>
         mem[p].state = "THREADPOOL_RUNNING"]_vars

\* C37: when deinit deletes the queue and the mutexes and frees the pool
\* record, every worker started on that pool has left its loop (none is
\* waiting on the queue, holds a dequeued task or is inside a body) and no
\* submitter is between its state check and its put, so that nothing
\* touches the released resources afterwards.
C37_ReleaseAtSafePoint ==
  [][\A p \in Addr :
       (app.pc = "d_free" /\ app.pool = p /\ heap[p] /\ ~heap'[p]) =>
         /\ \A t \in ThreadId : thr[t].pool = p => thr[t].st = "free"
         /\ sub.pc # "put"]_vars

Without(sinks, s) == SelectSeq(sinks, LAMBDA x : x # s)

\* C40 (the registry): the registry never holds more than LOGGER_MAX_SINKS
\* sinks, never a NULL entry among its sink_count entries and never the same
\* sink twice; registering a registered sink, or a new sink on a full
\* registry, changes nothing, and the latter returns false; registering a
\* new sink on a registry with room appends it and returns true; unregister
\* removes exactly that sink and keeps the order of the others; clear
\* empties the registry.
C40_RegistryKept ==
  /\ [](/\ Len(logger.sinks) <= LOGGER_MAX_SINKS
        /\ \A j, k \in 1..Len(logger.sinks) :
             /\ logger.sinks[j] # NULL
             /\ j # k => logger.sinks[j] # logger.sinks[k])
  /\ [][/\ (lev'.op = "register" /\ lev'.sink \in SeqRange(logger.sinks)) =>
             logger'.sinks = logger.sinks
        /\ (lev'.op = "register" /\ lev'.sink \notin SeqRange(logger.sinks)
                                 /\ Len(logger.sinks) = LOGGER_MAX_SINKS) =>
             (~lev'.ret /\ logger'.sinks = logger.sinks)
        /\ (lev'.op = "register" /\ lev'.sink \notin SeqRange(logger.sinks)
                                 /\ lev'.sink # NULL
                                 /\ Len(logger.sinks) < LOGGER_MAX_SINKS) =>
             (lev'.ret /\ logger'.sinks = Append(logger.sinks, lev'.sink))
        /\ lev'.op = "unregister" =>
             logger'.sinks = Without(logger.sinks, lev'.sink)
        /\ lev'.op = "clear" => logger'.sinks = << >>]_vars

\* C40: the registry holds at most LOGGER_MAX_SINKS sinks and never the
\* same sink twice; registering a sink that is already registered always
\* returns true and changes nothing; registering a new sink when the
\* registry is full returns false and changes nothing; unregister removes
\* exactly that sink and keeps the order of the others.
C40_RegistryAsStated ==
  /\ [](/\ Len(logger.sinks) <= LOGGER_MAX_SINKS
        /\ \A j, k \in 1..Len(logger.sinks) :
             /\ logger.sinks[j] # NULL
             /\ j # k => logger.sinks[j] # logger.sinks[k])
  /\ [][/\ (lev'.op = "register" /\ lev'.sink \in SeqRange(logger.sinks)) =>
             (lev'.ret /\ logger'.sinks = logger.sinks)
        /\ (lev'.op = "register" /\ lev'.sink \notin SeqRange(logger.sinks)
                                 /\ Len(logger.sinks) = LOGGER_MAX_SINKS) =>
             (~lev'.ret /\ logger'.sinks = logger.sinks)
        /\ lev'.op = "unregister" =>
             logger'.sinks = Without(logger.sinks, lev'.sink)]_vars

============================================================================
